---- MODULE Spec2Model ----
(***************************************************************************)
(* Model of telegram_bot/bot.py: the slot / booking handlers, the date     *)
(* parsers, the admin allowlist, the admin token row and the deploy        *)
(* dispatch.                                                               *)
(*                                                                         *)
(* Texts are sequences of one-character strings, so that the regular       *)
(* expressions, strip(), split() and sorted() of the source are computed   *)
(* character by character.                                                 *)
(***************************************************************************)
EXTENDS Integers, Sequences, FiniteSets, TLC

VARIABLES
    slots,          \* available-slots.json: date -> list of times
    bookings,       \* bookings.json: list of {date, time, name, phone}
    chat_state,     \* chat_state[chat_id]
    today,          \* date.today(), as [y, m, d]
    sent,           \* messages sent by the handler that ran last
    last,           \* the event handled last
    admin_ids,      \* ADMIN_CHAT_IDS
    secret,         \* ADMIN_TOKEN_HASH_SECRET
    token_row,      \* table admin_auth_token (at most the row id = 1)
    issued,         \* raw tokens handed out so far, with their issue time
    now,            \* int(datetime.now().timestamp())
    verified,       \* outcome of the last verification of a raw token
    pipelines,      \* threads running run_site_rebuild
    text_in,        \* parser harness: the text under test
    parsed,         \* parser harness: results of the two parsers
    call,           \* function harness: the function applied, its arguments, its result
    locals,         \* chat -> local variables of its handler between read and write
    damaged,        \* the files a write that failed midway left cut off
    screen,         \* chat -> the confirmation prompts sent to it, with their buttons
    chat_pkg_draft,         \* chat_pkg_draft: chat -> draft of a new package
    chat_pkg_target,        \* chat_pkg_target: chat -> id of the package acted on
    chat_video_draft,       \* chat_video_draft: chat -> draft of a new video
    chat_edit_vid_idx,      \* chat_edit_vid_idx: chat -> index of the video edited
    chat_post_files,        \* chat_post_files: chat -> file of the new post
    chat_edit_post_files,   \* chat_edit_post_files: chat -> file of the post edited
    chat_upload_dirs,       \* chat_upload_dirs: chat -> directory of the upload
    chat_rename_targets,    \* chat_rename_targets: chat -> (dir_name, filename)
    packages,       \* packages.json: list of packages
    posts,          \* content/posts: file name -> text
    public_files,   \* public/<dir>/<file>: the set of (dir, file)
    scenario        \* the part of the bot the operators of this run work with

vars == <<slots, bookings, chat_state, today, sent, last, admin_ids, secret,
          token_row, issued, now, verified, pipelines, text_in, parsed, call, locals,
          damaged, screen,
          chat_pkg_draft, chat_pkg_target, chat_video_draft, chat_edit_vid_idx,
          chat_post_files, chat_edit_post_files, chat_upload_dirs,
          chat_rename_targets, packages, posts, public_files, scenario>>

----------------------------------------------------------------------------
(* Characters and strings                                                   *)

Digits == <<"0", "1", "2", "3", "4", "5", "6", "7", "8", "9">>

\* \d of the re module, restricted to ASCII
IsDigit(c) == \E i \in 1..10 : Digits[i] = c

\* \s of the re module and the separators of str.split() / str.strip()
IsSpace(c) == c \in {" ", "\t", "\n"}

DigitVal(c) == (CHOOSE i \in 1..10 : Digits[i] = c) - 1

\* code point of a character (the ones that occur in dates and times)
Ord(c) ==
    CASE c = "\t" -> 9
      [] c = "\n" -> 10
      [] c = " " -> 32
      [] c = "-" -> 45
      [] c = "." -> 46
      [] c = "/" -> 47
      [] IsDigit(c) -> 48 + DigitVal(c)
      [] c = ":" -> 58
      [] c = "|" -> 124
      [] OTHER -> 120

\* Python's str comparison a < b: lexicographic by code point
RECURSIVE StrLess(_, _)
StrLess(a, b) ==
    IF b = <<>> THEN FALSE
    ELSE IF a = <<>> THEN TRUE
    ELSE IF Head(a) = Head(b) THEN StrLess(Tail(a), Tail(b))
    ELSE Ord(Head(a)) < Ord(Head(b))

StrLeq(a, b) == a = b \/ StrLess(a, b)

\* s[i:j] with 1-based inclusive bounds
Slice(s, i, j) == IF i > j THEN <<>> ELSE SubSeq(s, i, j)

RECURSIVE LStrip(_)
LStrip(s) == IF s /= <<>> /\ IsSpace(Head(s)) THEN LStrip(Tail(s)) ELSE s

RECURSIVE RStrip(_)
RStrip(s) ==
    IF s /= <<>> /\ IsSpace(s[Len(s)]) THEN RStrip(Slice(s, 1, Len(s) - 1)) ELSE s

\* str.strip()
Strip(s) == RStrip(LStrip(s))

\* length of the leading run of non-space characters
RECURSIVE WordLen(_)
WordLen(s) == IF s = <<>> \/ IsSpace(Head(s)) THEN 0 ELSE 1 + WordLen(Tail(s))

\* str.split(): the maximal runs of non-space characters
RECURSIVE Split(_)
Split(s) ==
    LET t == LStrip(s) IN
    IF t = <<>> THEN <<>>
    ELSE <<Slice(t, 1, WordLen(t))>> \o Split(Slice(t, WordLen(t) + 1, Len(t)))

\* position of the first occurrence of character c in s, 0 when absent
RECURSIVE Find(_, _)
Find(s, c) ==
    IF s = <<>> THEN 0
    ELSE IF Head(s) = c THEN 1
    ELSE LET r == Find(Tail(s), c) IN IF r = 0 THEN 0 ELSE r + 1

\* str.split(c, 1): one part when c is absent, else two
SplitOnce(s, c) ==
    LET i == Find(s, c) IN
    IF i = 0 THEN <<s>> ELSE <<Slice(s, 1, i - 1), Slice(s, i + 1, Len(s))>>

\* str.split(c): all the parts
RECURSIVE SplitAll(_, _)
SplitAll(s, c) ==
    LET i == Find(s, c) IN
    IF i = 0 THEN <<s>>
    ELSE <<Slice(s, 1, i - 1)>> \o SplitAll(Slice(s, i + 1, Len(s)), c)

AllDigits(s) == \A i \in 1..Len(s) : IsDigit(s[i])

AllSpace(s) == \A i \in 1..Len(s) : IsSpace(s[i])

\* int(s) of a string of digits
RECURSIVE IntOf(_)
IntOf(s) ==
    IF s = <<>> THEN 0 ELSE 10 * IntOf(Slice(s, 1, Len(s) - 1)) + DigitVal(s[Len(s)])

\* str(n) of a natural number
RECURSIVE StrOf(_)
StrOf(n) == IF n < 10 THEN <<Digits[n + 1]>> ELSE StrOf(n \div 10) \o <<Digits[(n % 10) + 1]>>

\* f"{n:04d}": str(n) left-padded with zeros to width 4
RECURSIVE Pad4(_)
Pad4(s) == IF Len(s) >= 4 THEN s ELSE Pad4(<<"0">> \o s)

Fmt04d(n) == Pad4(StrOf(n))

\* the text as one string, for display
RECURSIVE Str(_)
Str(s) == IF s = <<>> THEN "" ELSE Head(s) \o Str(Tail(s))

----------------------------------------------------------------------------
(* Date and time parsing                                                    *)

\* None as a chat's state
None == "None"

\* None where a string is expected, and the 'no result' values (None, None) and
\* (None, None, None) of the parsers
NoStr == <<>>
None2 == <<NoStr, NoStr>>
None3 == <<NoStr, NoStr, NoStr>>

\* \d{2}:\d{2}
IsHHMM(s) ==
    /\ Len(s) = 5
    /\ IsDigit(s[1]) /\ IsDigit(s[2]) /\ s[3] = ":" /\ IsDigit(s[4]) /\ IsDigit(s[5])

\* \d{4}-\d{2}-\d{2}
IsIsoDate(s) ==
    /\ Len(s) = 10
    /\ AllDigits(Slice(s, 1, 4)) /\ s[5] = "-"
    /\ AllDigits(Slice(s, 6, 7)) /\ s[8] = "-"
    /\ AllDigits(Slice(s, 9, 10))

IsSep(c) == c \in {".", "-"}

\* (\d{2})[.\-](\d{2})[.\-](\d{4})
IsDMY(s) ==
    /\ Len(s) = 10
    /\ AllDigits(Slice(s, 1, 2)) /\ IsSep(s[3])
    /\ AllDigits(Slice(s, 4, 5)) /\ IsSep(s[6])
    /\ AllDigits(Slice(s, 7, 10))

\* (\d{2})[.\-](\d{2})
IsDM(s) ==
    /\ Len(s) = 5
    /\ AllDigits(Slice(s, 1, 2)) /\ IsSep(s[3])
    /\ AllDigits(Slice(s, 4, 5))

\* the tail of the three patterns after a date of n characters: \s+(\d{2}:\d{2})$
TimeTail(s, n) ==
    /\ Len(s) >= n + 1 + 5
    /\ Len(s) - 5 >= n + 1
    /\ AllSpace(Slice(s, n + 1, Len(s) - 5))
    /\ IsHHMM(Slice(s, Len(s) - 4, Len(s)))

\* ^(\d{4}-\d{2}-\d{2})\s+(\d{2}:\d{2})$
MatchIso(s) == Len(s) >= 10 /\ IsIsoDate(Slice(s, 1, 10)) /\ TimeTail(s, 10)

\* ^(\d{2})[.\-](\d{2})[.\-](\d{4})\s+(\d{2}:\d{2})$
MatchDMY(s) == Len(s) >= 10 /\ IsDMY(Slice(s, 1, 10)) /\ TimeTail(s, 10)

\* ^(\d{2})[.\-](\d{2})\s+(\d{2}:\d{2})$
MatchDM(s) == Len(s) >= 5 /\ IsDM(Slice(s, 1, 5)) /\ TimeTail(s, 5)

TimeOf(s) == Slice(s, Len(s) - 4, Len(s))

DateFromDMY_Swapped(s) == Slice(s, 7, 10) \o <<"-">> \o Slice(s, 1, 2) \o <<"-">> \o Slice(s, 4, 5)

\* date_str of the DD.MM.YYYY grammar: f"{y}-{mth}-{d}"
DateFromDMY(s) == Slice(s, 7, 10) \o <<"-">> \o Slice(s, 4, 5) \o <<"-">> \o Slice(s, 1, 2)

DateFromDM_Swapped(s, y) == Fmt04d(y) \o <<"-">> \o Slice(s, 1, 2) \o <<"-">> \o Slice(s, 4, 5)

\* date_str of the DD.MM grammar: f"{y:04d}-{mth}-{d}" with y = date.today().year
DateFromDM(s, y) == Fmt04d(y) \o <<"-">> \o Slice(s, 4, 5) \o <<"-">> \o Slice(s, 1, 2)

parse_date_time(text, y) ==
    LET s == Strip(text) IN
    IF MatchIso(s) THEN <<Slice(s, 1, 10), TimeOf(s)>>
    ELSE IF MatchDMY(s) THEN <<DateFromDMY(s), TimeOf(s)>>
    ELSE IF MatchDM(s) THEN <<DateFromDM(s, y), TimeOf(s)>>
    ELSE None2

parse_date_range(text, y) ==
    LET parts == Split(Strip(text)) IN
    IF Len(parts) < 3 THEN None3
    ELSE LET st == parse_date_time(parts[1] \o <<" ">> \o parts[2], y)
             en == parse_date_time(parts[1] \o <<" ">> \o parts[3], y)
         IN  IF st = None2 \/ en = None2 THEN None3
             ELSE <<st[1], st[2], en[2]>>

----------------------------------------------------------------------------
(* Collections                                                              *)

\* the empty dict {}
EmptyDict == [k \in {} |-> <<>>]

\* d[k] = v
DictSet(d, k, v) == [x \in (DOMAIN d) \cup {k} |-> IF x = k THEN v ELSE d[x]]

\* del d[k]
DictDel(d, k) == [x \in (DOMAIN d) \ {k} |-> d[x]]

\* d.get(k, [])
DictGet(d, k) == IF k \in DOMAIN d THEN d[k] ELSE <<>>

\* set(list)
ToSet(l) == {l[i] : i \in 1..Len(l)}

\* x in list
InList(x, l) == \E i \in 1..Len(l) : l[i] = x

\* sorted(S) for a set of strings
RECURSIVE SortedList(_)
SortedList(S) ==
    IF S = {} THEN <<>>
    ELSE LET m == CHOOSE x \in S : \A z \in S : StrLeq(x, z)
         IN  <<m>> \o SortedList(S \ {m})

\* [x for x in l if keep(x)] is SelectSeq

----------------------------------------------------------------------------
(* format_date_ru                                                           *)

\* the genitive month names of the table `months`, transliterated
MonthName(m) ==
    CASE m = <<"0", "1">> -> "yanvarya"
      [] m = <<"0", "2">> -> "fevralya"
      [] m = <<"0", "3">> -> "marta"
      [] m = <<"0", "4">> -> "aprelya"
      [] m = <<"0", "5">> -> "maya"
      [] m = <<"0", "6">> -> "iyunya"
      [] m = <<"0", "7">> -> "iyulya"
      [] m = <<"0", "8">> -> "avgusta"
      [] m = <<"0", "9">> -> "sentyabrya"
      [] m = <<"1", "0">> -> "oktyabrya"
      [] m = <<"1", "1">> -> "noyabrya"
      [] m = <<"1", "2">> -> "dekabrya"
      [] OTHER -> Str(m)

\* f"{int(d)} {months.get(m, m)} {y}", or date_str itself when the split or
\* int() raises
format_date_ru(date_str) ==
    LET p == SplitAll(date_str, "-") IN
    IF Len(p) = 3 /\ p[3] /= <<>> /\ AllDigits(p[3])
    THEN Str(StrOf(IntOf(p[3]))) \o " " \o MonthName(p[2]) \o " " \o Str(p[1])
    ELSE Str(date_str)

----------------------------------------------------------------------------
(* Inputs                                                                   *)

Chats == {1, 2}

\* the chat that drives the slot and booking handlers
Operators == {1}

\* two decimal digits, as the operator types them
D2(n) == <<Digits[(n \div 10) + 1], Digits[(n % 10) + 1]>>

\* HH:MM
WriteTime(h, m) == D2(h) \o <<":">> \o D2(m)

\* YYYY-MM-DD; also date.isoformat()
WriteIso(y, m, d) == Fmt04d(y) \o <<"-">> \o D2(m) \o <<"-">> \o D2(d)

\* DD.MM.YYYY
WriteDMY(y, m, d) == D2(d) \o <<".">> \o D2(m) \o <<".">> \o Fmt04d(y)

\* DD.MM
WriteDM(m, d) == D2(d) \o <<".">> \o D2(m)

Sp == <<" ">>

\* `10.02 10:00 11:00`, the example of the prompt of handle_add_slot
TextExample == WriteDM(2, 10) \o Sp \o WriteTime(10, 0) \o Sp \o WriteTime(11, 0)

\* what an operator may send while a slot is awaited
SlotTexts ==
    { TextExample,
      WriteDMY(2026, 2, 10) \o Sp \o WriteTime(10, 0) \o Sp \o WriteTime(11, 0),
      WriteIso(2026, 2, 10) \o Sp \o Sp \o WriteTime(9, 0) \o Sp \o WriteTime(10, 0) \o Sp,
      WriteDM(2, 10) \o Sp \o WriteTime(10, 0),
      <<"h", "i">> }

\* the dates and times a button may carry: the buttons of every message sent
\* earlier, also by an earlier run of the bot, stay in the chat and can be pressed
ButtonDates == {WriteIso(2026, 2, 10), WriteIso(2027, 2, 10)}
ButtonTimes == {WriteTime(9, 0), WriteTime(10, 0)}

\* f"{date_str}|{time}"
Payload(d, t) == d \o <<"|">> \o t

Payloads == {Payload(d, t) : d \in ButtonDates, t \in ButtonTimes} \cup {WriteIso(2026, 2, 10)}

Booking(d, t, n, ph) == [date |-> d, time |-> t, name |-> n, phone |-> ph]

\* bookings the site may have stored
BookingPool ==
    { Booking(WriteIso(2026, 2, 10), WriteTime(10, 0), "Anna", "+7900"),
      Booking(WriteIso(2026, 2, 10), WriteTime(10, 0), "", ""),
      Booking(WriteIso(2026, 2, 10), WriteTime(9, 0), "Olga", "+7911") }

MaxBookings == 2

\* lists of distinct bookings
BookingLists ==
    UNION { { l \in [1..n -> BookingPool] : \A i, j \in 1..n : i /= j => l[i] /= l[j] }
            : n \in 0..MaxBookings }

\* slot files as the code or the operator's editor leaves them
SlotFiles ==
    { EmptyDict,
      WriteIso(2026, 2, 10) :> <<WriteTime(10, 0)>> }

Todays == { [y |-> 2026, m |-> 2, d |-> 11], [y |-> 2027, m |-> 1, d |-> 5] }

\* date.today().isoformat()
today_str == WriteIso(today.y, today.m, today.d)

----------------------------------------------------------------------------
(* Messages                                                                 *)

\* bot.send_message(chat_id, <text of this kind with these values>, reply_markup=kb)
Msg(c, kind, args, kb) == [to |-> c, kind |-> kind, args |-> args, kb |-> kb]

\* types.InlineKeyboardButton(callback_data=f"{tag}:{data}")
Button(tag, data) == [tag |-> tag, data |-> data]

\* bot.answer_callback_query(call.id, text)
Answer(c, text) == Msg(c, "answer_callback_query", <<text>>, <<>>)

\* reply_markup=make_main_keyboard()
MainKeyboard == <<Button("main_keyboard", <<>>)>>

Event(h, c, data) == [handler |-> h, chat |-> c, data |-> data]

\* name = b.get("name") or "Без имени"; phone = b.get("phone") or "без телефона"
ClientLine(b) ==
    << IF b.name = "" THEN "Bez imeni" ELSE b.name,
       IF b.phone = "" THEN "bez telefona" ELSE b.phone >>

ClientLines(bs) == [i \in 1..Len(bs) |-> ClientLine(bs[i])]

----------------------------------------------------------------------------
(* Slots and bookings                                                       *)

authVars == <<admin_ids, secret, token_row, issued, now, verified, pipelines>>
parseVars == <<text_in, parsed, call, locals, damaged, screen>>
draftVars == <<chat_pkg_draft, chat_pkg_target, chat_video_draft, chat_edit_vid_idx,
               chat_post_files, chat_edit_post_files, chat_upload_dirs,
               chat_rename_targets>>
contentVars == <<packages, posts, public_files, scenario>>

SetState(c, st) == [chat_state EXCEPT ![c] = st]

AlreadyPresent_Never(t, day_slots) == FALSE

\* time_start in day_slots
AlreadyPresent(t, day_slots) == InList(t, day_slots)

AddTime_Append(day_slots, t) == Append(day_slots, t)

\* day_slots.append(time_start); day_slots = sorted(set(day_slots))
AddTime(day_slots, t) == SortedList(ToSet(Append(day_slots, t)))

\* [b for b in bookings if b.get("date") == date_str and b.get("time") == time]
Affected(bs, d, t) == SelectSeq(bs, LAMBDA b : b.date = d /\ b.time = t)

RemainingBookings_All(bs, d, t) == bs

RemainingBookings_WholeDate(bs, d, t) == SelectSeq(bs, LAMBDA b : b.date /= d)

\* [b for b in bookings if not (b.get("date") == date_str and b.get("time") == time)]
RemainingBookings(bs, d, t) == SelectSeq(bs, LAMBDA b : ~(b.date = d /\ b.time = t))

\* new_times = [t for t in slots[date_str] if t != time]; the date is dropped
\* when no time is left
SlotsWithout(sl, d, t) ==
    LET new_times == SelectSeq(sl[d], LAMBDA x : x /= t) IN
    IF new_times /= <<>> THEN DictSet(sl, d, new_times) ELSE DictDel(sl, d)

NeedsConfirmation_Never(affected) == FALSE

\* if affected:
NeedsConfirmation(affected) == affected /= <<>>

\* handle_add_slot: what it writes, sends and leaves as the chat's state
handle_add_slot(c, text) ==
    LET r == parse_date_range(text, today.y)
        date_str == r[1]
        time_start == r[2]
        time_end == r[3]
        day_slots == DictGet(slots, date_str)
    IN  IF r = None3
        THEN [slots |-> slots, state |-> chat_state,
              msgs |-> <<Msg(c, "add_slot_format", <<>>, <<>>)>>]
        ELSE IF AlreadyPresent(time_start, day_slots)
        THEN [slots |-> slots, state |-> chat_state,
              msgs |-> <<Msg(c, "slot_already_present",
                             <<format_date_ru(date_str), Str(time_start)>>, <<>>)>>]
        ELSE [slots |-> DictSet(slots, date_str, AddTime(day_slots, time_start)),
              state |-> SetState(c, None),
              msgs |-> <<Msg(c, "slot_added",
                             <<format_date_ru(date_str), Str(time_start), Str(time_end)>>,
                             MainKeyboard)>>]

\* delete_slot_and_notify: what it writes, sends and leaves as the chat's state
\* (the second `if affected:` of the source can not be reached: the first returns)
delete_slot_and_notify(c, date_str, time) ==
    IF date_str \notin DOMAIN slots \/ ~InList(time, slots[date_str])
    THEN [slots |-> slots, state |-> chat_state,
          msgs |-> <<Msg(c, "slot_not_found", <<format_date_ru(date_str), Str(time)>>, <<>>)>>]
    ELSE LET affected == Affected(bookings, date_str, time) IN
         IF NeedsConfirmation(affected)
         THEN [slots |-> slots, state |-> chat_state,
               msgs |-> <<Msg(c, "confirm_slot_deletion",
                              <<format_date_ru(date_str), Str(time), ClientLines(affected)>>,
                              <<Button("confirm_del", Payload(date_str, time)),
                                Button("cancel_del", <<>>)>>)>>]
         ELSE [slots |-> SlotsWithout(slots, date_str, time),
               state |-> SetState(c, None),
               msgs |-> <<Msg(c, "slot_deleted", <<format_date_ru(date_str), Str(time)>>,
                              MainKeyboard)>>]

\* handle_delete_slot
handle_delete_slot(c, text) ==
    LET r == parse_date_time(text, today.y) IN
    IF r = None2
    THEN [slots |-> slots, state |-> chat_state,
          msgs |-> <<Msg(c, "del_slot_format", <<>>, <<>>)>>]
    ELSE delete_slot_and_notify(c, r[1], r[2])

\* handle_text, the catch-all message handler: the states of the slot wizards
\* and the idle state
handle_text(c, text) ==
    LET eff == IF chat_state[c] = "add_slot" THEN handle_add_slot(c, text)
               ELSE IF chat_state[c] = "del_slot" THEN handle_delete_slot(c, text)
               ELSE [slots |-> slots, state |-> chat_state,
                     msgs |-> <<Msg(c, "unknown_text", <<>>, MainKeyboard)>>]
    IN  /\ slots' = eff.slots
        /\ chat_state' = eff.state
        /\ sent' = eff.msgs
        /\ last' = Event("handle_text", c, text)
        /\ UNCHANGED <<bookings, today, authVars, parseVars, draftVars, contentVars>>

\* the times of the bookings of date d
Booked(d) == {bookings[i].time : i \in {j \in 1..Len(bookings) : bookings[j].date = d}}

\* one entry of the list of "Показать слоты": the date, the free and the taken times
SlotLine(d) ==
    << format_date_ru(d),
       SelectSeq(slots[d], LAMBDA t : t \notin Booked(d)),
       SelectSeq(slots[d], LAMBDA t : t \in Booked(d)) >>

\* sorted(d for d, times in slots.items() if d >= today_str and times)
AvailableDates ==
    SortedList({d \in DOMAIN slots : StrLeq(today_str, d) /\ slots[d] /= <<>>})

\* handle_buttons, text "Показать слоты"
ShowSlots(c) ==
    /\ chat_state' = SetState(c, None)
    /\ sent' = IF DOMAIN slots = {}
               THEN <<Msg(c, "no_slots", <<>>, MainKeyboard)>>
               ELSE LET ds == SortedList(DOMAIN slots) IN
                    <<Msg(c, "slot_list", [i \in 1..Len(ds) |-> SlotLine(ds[i])],
                          MainKeyboard)>>
    /\ last' = Event("handle_buttons_show_slots", c, <<>>)
    /\ UNCHANGED <<slots, bookings, today, authVars, parseVars, draftVars, contentVars>>

\* handle_buttons, text "Добавить слот"
AddSlotButton(c) ==
    /\ chat_state' = SetState(c, "add_slot")
    /\ sent' = <<Msg(c, "add_slot_prompt", <<>>, <<>>)>>
    /\ last' = Event("handle_buttons_add_slot", c, <<>>)
    /\ UNCHANGED <<slots, bookings, today, authVars, parseVars, draftVars, contentVars>>

\* handle_buttons, text "Удалить слот"
DeleteSlotButton(c) ==
    /\ IF DOMAIN slots = {}
       THEN /\ sent' = <<Msg(c, "no_slots_to_delete", <<>>, MainKeyboard)>>
            /\ UNCHANGED chat_state
       ELSE IF AvailableDates = <<>>
       THEN /\ sent' = <<Msg(c, "no_future_dates", <<>>, MainKeyboard)>>
            /\ UNCHANGED chat_state
       ELSE /\ sent' = <<Msg(c, "choose_date", <<>>,
                             [i \in 1..Len(AvailableDates) |->
                                 Button("del_date", AvailableDates[i])])>>
            /\ chat_state' = SetState(c, None)
    /\ last' = Event("handle_buttons_delete_slot", c, <<>>)
    /\ UNCHANGED <<slots, bookings, today, authVars, parseVars, draftVars, contentVars>>

\* handle_buttons, text "Отменить запись": the handler's filter takes the text,
\* none of its branches does, and no later handler is tried
CancelBookingButton(c) ==
    /\ sent' = <<>>
    /\ last' = Event("handle_buttons_cancel_booking", c, <<>>)
    /\ UNCHANGED <<slots, bookings, chat_state, today, authVars, parseVars, draftVars, contentVars>>

\* handle_delete_date_callback
handle_delete_date_callback(c, date_str) ==
    /\ LET times == DictGet(slots, date_str) IN
       sent' = IF times = <<>>
               THEN <<Answer(c, "no_slots_for_date"),
                      Msg(c, "no_slots_for_date", <<>>, MainKeyboard)>>
               ELSE <<Answer(c, ""),
                      Msg(c, "choose_time", <<format_date_ru(date_str)>>,
                          [i \in 1..Len(times) |->
                              Button("del_time", Payload(date_str, times[i]))])>>
    /\ last' = Event("del_date", c, date_str)
    /\ UNCHANGED <<slots, bookings, chat_state, today, authVars, parseVars, draftVars, contentVars>>

\* handle_delete_time_callback
handle_delete_time_callback(c, payload) ==
    LET p == SplitOnce(payload, "|") IN
    /\ last' = Event("del_time", c, payload)
    /\ IF Len(p) /= 2
       THEN /\ sent' = <<Answer(c, "slot_data_error")>>
            /\ UNCHANGED <<slots, chat_state>>
       ELSE LET eff == delete_slot_and_notify(c, p[1], p[2]) IN
            /\ slots' = eff.slots
            /\ chat_state' = eff.state
            /\ sent' = eff.msgs \o <<Answer(c, "")>>
    /\ UNCHANGED <<bookings, today, authVars, parseVars, draftVars, contentVars>>

\* handle_confirm_delete_callback
handle_confirm_delete_callback(c, payload) ==
    LET p == SplitOnce(payload, "|") IN
    /\ last' = Event("confirm_del", c, payload)
    /\ IF Len(p) /= 2
       THEN /\ sent' = <<Answer(c, "slot_data_error")>>
            /\ UNCHANGED <<slots, bookings>>
       ELSE LET date_str == p[1]
                time == p[2]
                cancelled_bookings == Affected(bookings, date_str, time)
            IN  /\ slots' = IF date_str \in DOMAIN slots /\ InList(time, slots[date_str])
                            THEN SlotsWithout(slots, date_str, time)
                            ELSE slots
                /\ bookings' = RemainingBookings(bookings, date_str, time)
                /\ sent' = IF cancelled_bookings /= <<>>
                           THEN <<Msg(c, "slot_deleted_bookings_cancelled",
                                      <<format_date_ru(date_str), Str(time),
                                        ClientLines(cancelled_bookings)>>, MainKeyboard),
                                  Answer(c, "slot_and_bookings_deleted")>>
                           ELSE <<Msg(c, "slot_deleted",
                                      <<format_date_ru(date_str), Str(time)>>, MainKeyboard),
                                  Answer(c, "slot_and_bookings_deleted")>>
    /\ UNCHANGED <<chat_state, today, authVars, parseVars, draftVars, contentVars>>

handle_cancel_delete_callback_Clears(c) ==
    /\ sent' = <<Answer(c, "slot_deletion_cancelled")>>
    /\ last' = Event("cancel_del", c, <<>>)
    /\ slots' = EmptyDict
    /\ UNCHANGED <<bookings, chat_state, today, authVars, parseVars, draftVars, contentVars>>

\* handle_cancel_delete_callback
handle_cancel_delete_callback(c) ==
    /\ sent' = <<Answer(c, "slot_deletion_cancelled")>>
    /\ last' = Event("cancel_del", c, <<>>)
    /\ UNCHANGED <<slots, bookings, chat_state, today, authVars, parseVars, draftVars, contentVars>>

\* handle_cancel_date_callback
handle_cancel_date_callback(c, date_str) ==
    /\ LET times == SortedList(Booked(date_str)) IN
       sent' = IF times = <<>>
               THEN <<Answer(c, "no_bookings_for_date"),
                      Msg(c, "no_bookings_for_date", <<>>, MainKeyboard)>>
               ELSE <<Answer(c, ""),
                      Msg(c, "choose_booking_time", <<format_date_ru(date_str)>>,
                          [i \in 1..Len(times) |->
                              Button("cancel_time", Payload(date_str, times[i]))])>>
    /\ last' = Event("cancel_date", c, date_str)
    /\ UNCHANGED <<slots, bookings, chat_state, today, authVars, parseVars, draftVars, contentVars>>

\* handle_cancel_time_callback
handle_cancel_time_callback(c, payload) ==
    LET p == SplitOnce(payload, "|") IN
    /\ last' = Event("cancel_time", c, payload)
    /\ sent' = IF Len(p) /= 2 THEN <<Answer(c, "booking_data_error")>>
               ELSE LET affected == Affected(bookings, p[1], p[2]) IN
                    IF affected = <<>>
                    THEN <<Answer(c, "booking_already_gone"),
                           Msg(c, "no_bookings_for_slot", <<>>, MainKeyboard)>>
                    ELSE <<Answer(c, ""),
                           Msg(c, "confirm_booking_cancellation",
                               <<format_date_ru(p[1]), Str(p[2]), ClientLines(affected)>>,
                               <<Button("confirm_cancel_booking", Payload(p[1], p[2])),
                                 Button("cancel_cancel_booking", <<>>)>>)>>
    /\ UNCHANGED <<slots, bookings, chat_state, today, authVars, parseVars, draftVars, contentVars>>

\* handle_confirm_cancel_booking_callback
handle_confirm_cancel_booking_callback(c, payload) ==
    LET p == SplitOnce(payload, "|") IN
    /\ last' = Event("confirm_cancel_booking", c, payload)
    /\ IF Len(p) /= 2
       THEN /\ sent' = <<Answer(c, "booking_data_error")>>
            /\ UNCHANGED bookings
       ELSE LET cancelled == Affected(bookings, p[1], p[2]) IN
            /\ bookings' = RemainingBookings(bookings, p[1], p[2])
            /\ sent' = IF cancelled /= <<>>
                       THEN <<Msg(c, "bookings_cancelled",
                                  <<format_date_ru(p[1]), Str(p[2]), ClientLines(cancelled)>>,
                                  MainKeyboard),
                              Answer(c, "bookings_cancelled")>>
                       ELSE <<Msg(c, "bookings_cancelled_earlier", <<>>, MainKeyboard),
                              Answer(c, "bookings_cancelled")>>
    /\ UNCHANGED <<slots, chat_state, today, authVars, parseVars, draftVars, contentVars>>

\* handle_cancel_cancel_booking_callback
handle_cancel_cancel_booking_callback(c) ==
    /\ sent' = <<Answer(c, "booking_actions_cancelled")>>
    /\ last' = Event("cancel_cancel_booking", c, <<>>)
    /\ UNCHANGED <<slots, bookings, chat_state, today, authVars, parseVars, draftVars, contentVars>>

----------------------------------------------------------------------------
(* The slot and booking handlers as a state machine                         *)

NoEvent == Event("none", 0, <<>>)

NotVerified == [done |-> FALSE, raw |-> 0, at |-> 0, n |-> 0, result |-> "none"]

AuthIdle ==
    /\ admin_ids = {}
    /\ secret = ""
    /\ token_row = <<>>
    /\ issued = <<>>
    /\ now = 0
    /\ verified = NotVerified
    /\ pipelines = <<>>

NotParsed == [done |-> FALSE, dt |-> None2, rng |-> None3]

NoCase ==
    [form |-> "none", rform |-> "none", lead |-> "none", y |-> 0, m |-> 0, d |-> 0,
     time |-> NoStr, text |-> NoStr, rtext |-> NoStr]

\* no function is under test
NoCall == [fn |-> "none", args |-> <<>>, result |-> <<>>, done |-> FALSE]

\* no handler is between its read and its write
NoLocals == [c \in Chats |-> [pc |-> "idle"]]

ParseIdle ==
    /\ text_in = NoCase
    /\ parsed = NotParsed
    /\ call = NoCall
    /\ locals = NoLocals
    /\ damaged = {}
    /\ screen = [c \in Chats |-> {}]

\* the eight per-chat dicts are empty at start; no package, post or public file
DraftsIdle ==
    /\ chat_pkg_draft = EmptyDict
    /\ chat_pkg_target = EmptyDict
    /\ chat_video_draft = EmptyDict
    /\ chat_edit_vid_idx = EmptyDict
    /\ chat_post_files = EmptyDict
    /\ chat_edit_post_files = EmptyDict
    /\ chat_upload_dirs = EmptyDict
    /\ chat_rename_targets = EmptyDict
    /\ packages = <<>>
    /\ posts = EmptyDict
    /\ public_files = {}
    /\ scenario = "none"

Init ==
    /\ slots \in SlotFiles
    /\ bookings \in BookingLists
    /\ chat_state = [c \in Chats |-> None]
    /\ today \in Todays
    /\ sent = <<>>
    /\ last = NoEvent
    /\ AuthIdle
    /\ ParseIdle
    /\ DraftsIdle

Next ==
    \/ \E c \in Operators : ShowSlots(c)
    \/ \E c \in Operators : AddSlotButton(c)
    \/ \E c \in Operators : DeleteSlotButton(c)
    \/ \E c \in Operators : CancelBookingButton(c)
    \/ \E c \in Operators, text \in SlotTexts : handle_text(c, text)
    \/ \E c \in Operators, d \in ButtonDates : handle_delete_date_callback(c, d)
    \/ \E c \in Operators, p \in Payloads : handle_delete_time_callback(c, p)
    \/ \E c \in Operators, p \in Payloads : handle_confirm_delete_callback(c, p)
    \/ \E c \in Operators : handle_cancel_delete_callback(c)
    \/ \E c \in Operators, d \in ButtonDates : handle_cancel_date_callback(c, d)
    \/ \E c \in Operators, p \in Payloads : handle_cancel_time_callback(c, p)
    \/ \E c \in Operators, p \in Payloads : handle_confirm_cancel_booking_callback(c, p)
    \/ \E c \in Operators : handle_cancel_cancel_booking_callback(c)

Spec == Init /\ [][Next]_vars

----------------------------------------------------------------------------
(* Properties of the slot and booking handlers                              *)

HasSlot(sl, d, t) == d \in DOMAIN sl /\ InList(t, sl[d])

HasBookings(bs, d, t) == \E i \in 1..Len(bs) : bs[i].date = d /\ bs[i].time = t

\* the (date, time) pairs of a slots collection
SlotKeys(sl) == UNION { {<<d, sl[d][i]>> : i \in 1..Len(sl[d])} : d \in DOMAIN sl }

IsPayload(p) == Len(SplitOnce(p, "|")) = 2
PayloadDate(p) == SplitOnce(p, "|")[1]
PayloadTime(p) == SplitOnce(p, "|")[2]

\* the bookings of bs that are not for (d, t), in their order
RECURSIVE OtherBookings(_, _, _)
OtherBookings(bs, d, t) ==
    IF bs = <<>> THEN <<>>
    ELSE IF Head(bs).date = d /\ Head(bs).time = t THEN OtherBookings(Tail(bs), d, t)
    ELSE <<Head(bs)>> \o OtherBookings(Tail(bs), d, t)

\* C1: a slot that has bookings leaves the slots collection only in a step that
\* handles confirm_del for that slot; choosing such a slot (del_time) sends the
\* confirmation prompt with the affected clients and changes neither collection;
\* choosing a slot without bookings removes it at once.
C1_DeletionNeedsConfirmation ==
    [][ /\ \A k \in SlotKeys(slots) :
            (HasBookings(bookings, k[1], k[2]) /\ ~HasSlot(slots', k[1], k[2]))
                => (last'.handler = "confirm_del" /\ last'.data = Payload(k[1], k[2]))
        /\ (last'.handler = "del_time" /\ IsPayload(last'.data)
              /\ HasSlot(slots, PayloadDate(last'.data), PayloadTime(last'.data)))
           => LET d == PayloadDate(last'.data)
                  t == PayloadTime(last'.data)
              IN  IF HasBookings(bookings, d, t)
                  THEN /\ slots' = slots
                       /\ bookings' = bookings
                       /\ sent'[1].kind = "confirm_slot_deletion"
                       /\ sent'[1].args[3] = ClientLines(Affected(bookings, d, t))
                       /\ sent'[1].kind /= "slot_deleted"
                  ELSE /\ ~HasSlot(slots', d, t)
                       /\ SlotKeys(slots') = SlotKeys(slots) \ {<<d, t>>}
      ]_vars

\* a booked slot was chosen for deletion: the prompt is out, the slot is still there
C1_Witness ==
    /\ last.handler = "del_time"
    /\ IsPayload(last.data)
    /\ HasSlot(slots, PayloadDate(last.data), PayloadTime(last.data))
    /\ HasBookings(bookings, PayloadDate(last.data), PayloadTime(last.data))
    /\ sent[1].kind = "confirm_slot_deletion"

\* C2: declining a slot deletion (cancel_del) or a booking cancellation
\* (cancel_cancel_booking) leaves the slots and the bookings collection as they were.
C2_DeclineChangesNothing ==
    [][ last'.handler \in {"cancel_del", "cancel_cancel_booking"}
          => (slots' = slots /\ bookings' = bookings) ]_vars

\* a deletion was declined while a booked slot exists
C2_Witness ==
    /\ last.handler = "cancel_del"
    /\ \E k \in SlotKeys(slots) : HasBookings(bookings, k[1], k[2])

TimeValue(t) == 60 * IntOf(Slice(t, 1, 2)) + IntOf(Slice(t, 4, 5))

\* C4: every date's list of times is duplicate-free and ascending by time.
C4_SlotsSortedUnique ==
    \A d \in DOMAIN slots :
        \A i, j \in 1..Len(slots[d]) :
            i < j => TimeValue(slots[d][i]) < TimeValue(slots[d][j])

\* an earlier time was added to a date that held a later one
C4_Witness ==
    /\ last.handler = "handle_text"
    /\ sent[1].kind = "slot_added"
    /\ \E d \in DOMAIN slots :
          /\ Len(slots[d]) = 2
          /\ Str(slots[d][1]) = sent[1].args[2]

\* C5: adding a slot that is already in the collection leaves the collection as
\* it is and reports "already present"; a slot that was added is in the
\* collection, so adding it again is this no-op.
C5_AddExistingIsNoop ==
    [][ (last'.handler = "handle_text" /\ chat_state[last'.chat] = "add_slot")
          => LET r == parse_date_range(last'.data, today.y) IN
             /\ (r /= None3 /\ HasSlot(slots, r[1], r[2]))
                  => /\ slots' = slots
                     /\ Len(sent') = 1
                     /\ sent'[1].kind = "slot_already_present"
             /\ (r /= None3 /\ ~HasSlot(slots, r[1], r[2]))
                  => /\ sent'[1].kind = "slot_added"
                     /\ SlotKeys(slots') = SlotKeys(slots) \cup {<<r[1], r[2]>>} ]_vars

\* a slot that was there was added again
C5_Witness ==
    /\ last.handler = "handle_text"
    /\ sent[1].kind = "slot_already_present"
    /\ HasSlot(slots, parse_date_range(last.data, today.y)[1],
               parse_date_range(last.data, today.y)[2])

\* C6: in state add_slot, with no slots and the year 2026, the text
\* `10.02 10:00 11:00` leaves exactly "2026-02-10": ["10:00"], replies with the
\* formatted date and returns the chat to idle.
C6_AddSlotScenario ==
    [][ ( /\ last'.handler = "handle_text"
          /\ Str(last'.data) = "10.02 10:00 11:00"
          /\ chat_state[last'.chat] = "add_slot"
          /\ slots = EmptyDict
          /\ today.y = 2026 )
          => /\ {Str(d) : d \in DOMAIN slots'} = {"2026-02-10"}
             /\ \A d \in DOMAIN slots' :
                   Len(slots'[d]) = 1 /\ Str(slots'[d][1]) = "10:00"
             /\ sent'[1].kind = "slot_added"
             /\ sent'[1].args[1] = "10 fevralya 2026"
             /\ sent'[1].to = last'.chat
             /\ chat_state'[last'.chat] = None ]_vars

\* the scenario has run
C6_Witness ==
    /\ last.handler = "handle_text"
    /\ Str(last.data) = "10.02 10:00 11:00"
    /\ today.y = 2026
    /\ sent[1].kind = "slot_added"
    /\ {Str(d) : d \in DOMAIN slots} = {"2026-02-10"}
    /\ \A d \in DOMAIN slots : Len(slots[d]) = 1 /\ Str(slots[d][1]) = "10:00"
    /\ chat_state[last.chat] = None

----------------------------------------------------------------------------
(* The parsers on their own                                                 *)

ParseYears == {2026, 2027}
ParseMonths == {2, 11}
ParseDays == {5, 28}
ParseTimes == {WriteTime(9, 0), WriteTime(10, 30), WriteTime(23, 59)}
Seps == {<<".">>, <<"-">>}
Gaps == {Sp, Sp \o Sp}

\* a date in one of the three grammars
WriteDate(form, y, m, d, sep) ==
    CASE form = "iso" -> WriteIso(y, m, d)
      [] form = "dmy" -> D2(d) \o sep \o D2(m) \o sep \o Fmt04d(y)
      [] form = "dm" -> D2(d) \o sep \o D2(m)

\* a text of a grammar, for both parsers: form names the grammar of text and of
\* rtext (rform) and of the first three words of rtext (lead)
GoodCase(form, y, m, d, t, sep, gap) ==
    [form |-> form, rform |-> form, lead |-> form, y |-> y, m |-> m, d |-> d, time |-> t,
     text |-> WriteDate(form, y, m, d, sep) \o gap \o t,
     rtext |-> WriteDate(form, y, m, d, sep) \o gap \o t \o Sp \o WriteTime(23, 59)]

GoodCases ==
    { GoodCase(f, y, m, d, t, sep, gap) :
        f \in {"iso", "dmy", "dm"}, y \in ParseYears, m \in ParseMonths, d \in ParseDays,
        t \in ParseTimes, sep \in Seps, gap \in Gaps }

\* a range text with words after the end time
ExtraCase(c, junk) == [c EXCEPT !.rform = "none", !.rtext = c.rtext \o Sp \o junk]

ExtraCases ==
    { ExtraCase(GoodCase(f, 2026, 2, 5, WriteTime(9, 0), <<".">>, Sp), j) :
        f \in {"iso", "dmy", "dm"}, j \in {WriteTime(12, 0), <<"x">>} }

BadCase(text, rtext) ==
    [form |-> "none", rform |-> "none", lead |-> "none", y |-> 0, m |-> 0, d |-> 0,
     time |-> NoStr, text |-> text, rtext |-> rtext]

\* texts of no grammar
BadCases ==
    { BadCase(<<>>, <<>>),
      \* 10.02  |  10.02 10:00
      BadCase(WriteDM(2, 10), WriteDM(2, 10) \o Sp \o WriteTime(10, 0)),
      \* 1.02 10:00  |  1.02 10:00 11:00
      BadCase(<<"1", ".">> \o D2(2) \o Sp \o WriteTime(10, 0),
              <<"1", ".">> \o D2(2) \o Sp \o WriteTime(10, 0) \o Sp \o WriteTime(11, 0)),
      \* 10/02 10:00  |  10/02 10:00 11:00
      BadCase(D2(10) \o <<"/">> \o D2(2) \o Sp \o WriteTime(10, 0),
              D2(10) \o <<"/">> \o D2(2) \o Sp \o WriteTime(10, 0) \o Sp \o WriteTime(11, 0)),
      \* 10.02.26 10:00  |  10.02.26 10:00 11:00
      BadCase(WriteDM(2, 10) \o <<".">> \o D2(26) \o Sp \o WriteTime(10, 0),
              WriteDM(2, 10) \o <<".">> \o D2(26) \o Sp \o WriteTime(10, 0) \o Sp \o WriteTime(11, 0)),
      \* 2026-2-10 10:00  |  2026-2-10 10:00 11:00
      BadCase(Fmt04d(2026) \o <<"-", "2", "-">> \o D2(10) \o Sp \o WriteTime(10, 0),
              Fmt04d(2026) \o <<"-", "2", "-">> \o D2(10) \o Sp \o WriteTime(10, 0) \o Sp \o WriteTime(11, 0)),
      \* 10.02 10.00  |  10.02 10:00 11.00
      BadCase(WriteDM(2, 10) \o Sp \o D2(10) \o <<".">> \o D2(0),
              WriteDM(2, 10) \o Sp \o WriteTime(10, 0) \o Sp \o D2(11) \o <<".">> \o D2(0)),
      \* 10.02 10:00 11:00  |  10.02 x 10:00 11:00
      BadCase(WriteDM(2, 10) \o Sp \o WriteTime(10, 0) \o Sp \o WriteTime(11, 0),
              WriteDM(2, 10) \o Sp \o <<"x">> \o Sp \o WriteTime(10, 0) \o Sp \o WriteTime(11, 0)),
      \* 10.02.2026T10:00  |  10.02.2026 9:00 11:00
      BadCase(WriteDMY(2026, 2, 10) \o <<"T">> \o WriteTime(10, 0),
              WriteDMY(2026, 2, 10) \o Sp \o <<"9", ":", "0", "0">> \o Sp \o WriteTime(11, 0)) }

ParseCases == GoodCases \cup ExtraCases \cup BadCases

InitParse ==
    /\ text_in \in ParseCases
    /\ parsed = NotParsed
    /\ call = NoCall
    /\ locals = NoLocals
    /\ damaged = {}
    /\ screen = [c \in Chats |-> {}]
    /\ today \in Todays
    /\ slots = EmptyDict
    /\ bookings = <<>>
    /\ chat_state = [c \in Chats |-> None]
    /\ sent = <<>>
    /\ last = NoEvent
    /\ AuthIdle
    /\ DraftsIdle

\* both parsers are applied to the text
ParseStep ==
    /\ ~parsed.done
    /\ parsed' = [done |-> TRUE,
                  dt |-> parse_date_time(text_in.text, today.y),
                  rng |-> parse_date_range(text_in.rtext, today.y)]
    /\ UNCHANGED <<slots, bookings, chat_state, today, sent, last, text_in, call, locals,
                   damaged, screen, authVars,
                   draftVars, contentVars>>

NextParse == ParseStep

SpecParse == InitParse /\ [][NextParse]_vars

\* the canonical date of a case written in grammar form
Canonical(c, form) ==
    IF form = "dm" THEN WriteIso(today.y, c.m, c.d) ELSE WriteIso(c.y, c.m, c.d)

\* what parse_date_time is to return for a text of grammar form
ExpectDT(c, form) == IF form = "none" THEN None2 ELSE <<Canonical(c, form), c.time>>

\* what parse_date_range is to return for a text of grammar form
ExpectRange(c, form) ==
    IF form = "none" THEN None3 ELSE <<Canonical(c, form), c.time, WriteTime(23, 59)>>

----------------------------------------------------------------------------
(* The allowlist, the admin token and the deploy dispatch                   *)

slotVars == <<slots, bookings>>

TTL_Minutes == 4 * 60

\* ADMIN_TOKEN_TTL_SECONDS = 4 * 60 * 60
ADMIN_TOKEN_TTL_SECONDS == 4 * 60 * 60

is_admin_chat_OpenWhenEmpty(c) == admin_ids = {} \/ StrOf(c) \in admin_ids

\* is_admin_chat: str(chat_id) in ADMIN_CHAT_IDS, False when the set is empty
is_admin_chat(c) == IF admin_ids = {} THEN FALSE ELSE StrOf(c) \in admin_ids

\* the message of ensure_admin to a chat that is not an administrator
Denial(c) == Msg(c, "admin_only", <<>>, <<>>)

\* _hash_admin_token: the HMAC-SHA256 of the raw token under the secret
hash_admin_token(raw) == [hmac_sha256 |-> <<secret, raw>>]

\* the values of one execution of issue_admin_token; raw_token is the n-th draw
\* of secrets.token_urlsafe(32), and no two draws are equal
NewToken(c) ==
    LET raw_token == Len(issued) + 1
        issued_at == now
        expires_at == issued_at + ADMIN_TOKEN_TTL_SECONDS
    IN  [raw_token |-> raw_token, issued_at |-> issued_at, expires_at |-> expires_at,
         row |-> [id |-> 1, token_hash |-> hash_admin_token(raw_token),
                  issued_at |-> issued_at, expires_at |-> expires_at,
                  created_by |-> StrOf(c)]]

Upsert_KeepExisting(rows, row) == IF rows = <<>> THEN <<row>> ELSE rows

Upsert_Insert(rows, row) == Append(rows, row)

\* INSERT INTO admin_auth_token ... ON CONFLICT(id) DO UPDATE SET ...
Upsert(rows, row) ==
    IF \E i \in 1..Len(rows) : rows[i].id = row.id
    THEN [i \in 1..Len(rows) |-> IF rows[i].id = row.id THEN row ELSE rows[i]]
    ELSE Append(rows, row)

MaxIssues == 2
MaxPipelines == 2

\* the whole of run_site_rebuild, every stage succeeding, before the handler returns
StartPipeline_RunsInHandler(c) ==
    pipelines' = Append(pipelines, [chat |-> c, pc |-> "done",
                                    log |-> <<[act |-> "msg", name |-> "deploy_succeeded",
                                               result |-> "", args |-> <<>>]>>])

\* a request that finds a pipeline under way starts nothing
StartPipeline_OneAtATime(c) ==
    pipelines' = IF \E i \in 1..Len(pipelines) : pipelines[i].pc /= "done"
                 THEN pipelines
                 ELSE Append(pipelines, [chat |-> c, pc |-> "start", log |-> <<>>])

\* threading.Thread(target=run_site_rebuild, args=(chat_id,), daemon=True).start()
StartPipeline(c) ==
    pipelines' = Append(pipelines, [chat |-> c, pc |-> "start", log |-> <<>>])

\* cmd_deploy: /deploy and /rebuild
cmd_deploy(c) ==
    /\ is_admin_chat(c) => Len(pipelines) < MaxPipelines
    /\ last' = Event("cmd_deploy", c, <<>>)
    /\ IF ~is_admin_chat(c)
       THEN /\ sent' = <<Denial(c)>>
            /\ UNCHANGED pipelines
       ELSE /\ sent' = <<>>
            /\ StartPipeline(c)
    /\ UNCHANGED <<slotVars, chat_state, today, admin_ids, secret, token_row, issued,
                   now, verified, parseVars, draftVars, contentVars>>

\* handle_system_actions, text "Деплой"
DeployButton(c) ==
    /\ is_admin_chat(c) => Len(pipelines) < MaxPipelines
    /\ last' = Event("handle_system_actions_deploy", c, <<>>)
    /\ IF ~is_admin_chat(c)
       THEN /\ sent' = <<Denial(c)>>
            /\ UNCHANGED pipelines
       ELSE /\ sent' = <<>>
            /\ StartPipeline(c)
    /\ UNCHANGED <<slotVars, chat_state, today, admin_ids, secret, token_row, issued,
                   now, verified, parseVars, draftVars, contentVars>>

NoSecret_Never == FALSE

\* issue_admin_token: if not ADMIN_TOKEN_HASH_SECRET: raise RuntimeError(...)
NoSecret == secret = ""

\* handle_system_actions, text "Получить токен"; issue_admin_token raises when
\* the secret is empty, and the handler reports what was raised
TokenButton(c) ==
    /\ is_admin_chat(c) => Len(issued) < MaxIssues
    /\ last' = Event("handle_system_actions_token", c, <<>>)
    /\ IF ~is_admin_chat(c)
       THEN /\ sent' = <<Denial(c)>>
            /\ UNCHANGED <<token_row, issued>>
       ELSE IF NoSecret
       THEN /\ sent' = <<Msg(c, "token_not_issued", <<"ADMIN_TOKEN_HASH_SECRET is not set">>,
                             <<Button("system_keyboard", <<>>)>>)>>
            /\ UNCHANGED <<token_row, issued>>
       ELSE LET t == NewToken(c) IN
            /\ token_row' = Upsert(token_row, t.row)
            /\ issued' = Append(issued, [raw_token |-> t.raw_token,
                                         issued_at |-> t.issued_at,
                                         expires_at |-> t.expires_at, chat |-> c])
            /\ sent' = <<Msg(c, "token_issued", <<t.raw_token, t.expires_at>>,
                             <<Button("system_keyboard", <<>>)>>)>>
    /\ UNCHANGED <<slotVars, chat_state, today, admin_ids, secret, now, verified,
                   pipelines, parseVars, draftVars, contentVars>>

\* handle_main_menus, text "Системные функции"
SystemMenu(c) ==
    /\ last' = Event("handle_main_menus_system", c, <<>>)
    /\ IF ~is_admin_chat(c)
       THEN /\ sent' = <<Denial(c)>>
            /\ UNCHANGED chat_state
       ELSE /\ sent' = <<Msg(c, "system_menu", <<>>, <<Button("system_keyboard", <<>>)>>)>>
            /\ chat_state' = SetState(c, None)
    /\ UNCHANGED <<slotVars, today, authVars, parseVars, draftVars, contentVars>>

\* handle_main_menus, the other menus: "Управление расписанием", "Управление
\* блогом", "Управление уроками", "⬅️ В главное меню"
OtherMenu(c, menu) ==
    /\ last' = Event("handle_main_menus", c, <<>>)
    /\ sent' = <<Msg(c, menu, <<>>, <<Button(menu, <<>>)>>)>>
    /\ chat_state' = IF menu \in {"blog_menu", "lessons_menu"} THEN SetState(c, None)
                     ELSE chat_state
    /\ UNCHANGED <<slotVars, today, authVars, parseVars, draftVars, contentVars>>

Menus == {"schedule_menu", "blog_menu", "lessons_menu", "main_menu"}

AdminSets == { {}, {StrOf(1)} }

InitAuth ==
    /\ admin_ids \in AdminSets
    /\ secret \in {"", "k"}
    /\ token_row = <<>>
    /\ issued = <<>>
    /\ now = 0
    /\ verified = NotVerified
    /\ pipelines = <<>>
    /\ chat_state \in [Chats -> {None, "add_slot"}]
    /\ slots = EmptyDict
    /\ bookings = <<>>
    /\ today \in Todays
    /\ sent = <<>>
    /\ last = NoEvent
    /\ ParseIdle
    /\ DraftsIdle

NextAuth ==
    \/ \E c \in Chats : cmd_deploy(c)
    \/ \E c \in Chats : DeployButton(c)
    \/ \E c \in Chats : TokenButton(c)
    \/ \E c \in Chats : SystemMenu(c)
    \/ \E c \in Chats, m \in Menus : OtherMenu(c, m)

SpecAuth == InitAuth /\ [][NextAuth]_vars

\* the handlers that ensure_admin guards
Guarded ==
    {"cmd_deploy", "handle_system_actions_deploy", "handle_system_actions_token",
     "handle_main_menus_system"}

\* C8: a chat that is not in the allowlist (every chat when the allowlist is empty)
\* gets the one denial message from /deploy, /rebuild, "Деплой", "Получить токен"
\* and the system menu, and nothing else changes; no pipeline and no token row
\* is ever due to such a chat.
C8_NonAdminRejected ==
    [][ /\ (last'.handler \in Guarded
              /\ (admin_ids = {} \/ StrOf(last'.chat) \notin admin_ids))
           => /\ sent' = <<[to |-> last'.chat, kind |-> "admin_only", args |-> <<>>,
                            kb |-> <<>>]>>
              /\ UNCHANGED <<chat_state, token_row, issued, pipelines, slots, bookings>>
        /\ \A i \in 1..Len(pipelines') : StrOf(pipelines'[i].chat) \in admin_ids
        /\ \A i \in 1..Len(token_row') : token_row'[i].created_by \in admin_ids
        /\ Len(pipelines') > Len(pipelines) => StrOf(last'.chat) \in admin_ids
      ]_vars

\* a chat outside a non-empty allowlist asked for a token after one was issued
C8_Witness ==
    /\ last.handler = "handle_system_actions_token"
    /\ admin_ids /= {}
    /\ StrOf(last.chat) \notin admin_ids
    /\ sent[1].kind = "admin_only"
    /\ token_row /= <<>>
    /\ pipelines /= <<>>

----------------------------------------------------------------------------
(* Issuing and verifying the admin token                                    *)

\* the instants at which something happens, in seconds
TimePoints == {0, 1, 14399, 14400, 14401, 28800, 28801}

\* the row an earlier run of the bot left, for raw token 0
PriorRow ==
    [id |-> 1, token_hash |-> [hmac_sha256 |-> <<"k", 0>>], issued_at |-> 0 - 3600,
     expires_at |-> 14400 - 3600, created_by |-> StrOf(1)]

\* time passes
Tick ==
    /\ \E t \in TimePoints : t > now /\ now' = t
    /\ last' = Event("tick", 0, <<>>)
    /\ sent' = <<>>
    /\ UNCHANGED <<slotVars, chat_state, today, admin_ids, secret, token_row, issued,
                   verified, pipelines, parseVars, draftVars, contentVars>>

\* verify(rawToken): recompute the hash, compare it with the stored one, check
\* the expiry; at the very instant of expiry either answer is allowed
VerifyOutcomes(raw) ==
    IF secret = "" \/ token_row = <<>> THEN {"invalid"}
    ELSE IF hash_admin_token(raw) /= token_row[1].token_hash THEN {"invalid"}
    ELSE IF now < token_row[1].expires_at THEN {"valid"}
    ELSE IF now > token_row[1].expires_at THEN {"expired"}
    ELSE {"valid", "expired"}

\* the site verifies a raw token: one that was issued, or the one of the earlier run
VerifyToken ==
    /\ \E raw \in 0..Len(issued) : \E res \in VerifyOutcomes(raw) :
          verified' = [done |-> TRUE, raw |-> raw, at |-> now, n |-> Len(issued),
                       result |-> res]
    /\ last' = Event("verify", 0, <<>>)
    /\ sent' = <<>>
    /\ UNCHANGED <<slotVars, chat_state, today, admin_ids, secret, token_row, issued,
                   now, pipelines, parseVars, draftVars, contentVars>>

InitToken ==
    /\ admin_ids \in { {StrOf(1)}, {StrOf(1), StrOf(2)} }
    /\ secret \in {"", "k"}
    /\ token_row \in {<<>>, <<PriorRow>>}
    /\ issued = <<>>
    /\ now = 0
    /\ verified = NotVerified
    /\ pipelines = <<>>
    /\ chat_state = [c \in Chats |-> None]
    /\ slots = EmptyDict
    /\ bookings = <<>>
    /\ today \in Todays
    /\ sent = <<>>
    /\ last = NoEvent
    /\ ParseIdle
    /\ DraftsIdle

NextToken ==
    \/ \E c \in Chats : TokenButton(c)
    \/ Tick
    \/ VerifyToken

SpecToken == InitToken /\ [][NextToken]_vars

\* C9: a raw token that is not the one issued last verifies as invalid, also
\* before its own expiry; only the token issued last can verify as valid.
C9_NewTokenRevokesOld ==
    verified.done =>
        /\ verified.raw < verified.n => verified.result = "invalid"
        /\ verified.result = "valid" => verified.raw = verified.n

\* the first token was verified before its expiry, after a second was issued
C9_Witness ==
    /\ verified.done
    /\ verified.raw = 1
    /\ verified.n = 2
    /\ verified.at < issued[1].expires_at
    /\ verified.result = "invalid"

\* C10: every row that issue_admin_token writes expires 14400 seconds after its
\* issue; the token issued last is accepted at any time before that instant and
\* rejected as expired at any time after it.
C10_FourHourTTL ==
    /\ \A i \in 1..Len(token_row) :
          token_row[i].expires_at = token_row[i].issued_at + 14400
    /\ \A i \in 1..Len(issued) : issued[i].expires_at = issued[i].issued_at + 14400
    /\ (verified.done /\ verified.n >= 1 /\ verified.raw = verified.n)
          => /\ verified.at < issued[verified.raw].issued_at + 14400
                  => verified.result = "valid"
             /\ verified.at > issued[verified.raw].issued_at + 14400
                  => verified.result = "expired"

\* the token issued last was accepted one second before its expiry
C10_Witness ==
    /\ verified.done
    /\ verified.n >= 1
    /\ verified.raw = verified.n
    /\ verified.at = issued[verified.raw].issued_at + 14399
    /\ verified.result = "valid"

\* the token issued last was rejected one second after its expiry
C10_WitnessExpired ==
    /\ verified.done
    /\ verified.n >= 1
    /\ verified.raw = verified.n
    /\ verified.at = issued[verified.raw].issued_at + 14401
    /\ verified.result = "expired"

\* the columns of admin_auth_token
TokenColumns == {"id", "token_hash", "issued_at", "expires_at", "created_by"}

\* C11: whatever chats issue tokens, the credential store holds at most one row,
\* its id is 1, and its token_hash is the keyed hash of the token issued last;
\* the row has no column for the raw token.
C11_OneHashedRow ==
    /\ Len(token_row) <= 1
    /\ \A i \in 1..Len(token_row) :
          /\ token_row[i].id = 1
          /\ DOMAIN token_row[i] = TokenColumns
          /\ DOMAIN token_row[i].token_hash = {"hmac_sha256"}
          /\ token_row[i].token_hash.hmac_sha256[1] /= ""
          /\ issued /= <<>> =>
                /\ token_row[i].token_hash.hmac_sha256
                      = <<secret, issued[Len(issued)].raw_token>>
                /\ token_row[i].created_by = StrOf(issued[Len(issued)].chat)
    /\ issued /= <<>> => Len(token_row) = 1

\* two chats issued a token one after the other; one row is stored, of the second
C11_Witness ==
    /\ Len(issued) = 2
    /\ issued[1].chat /= issued[2].chat
    /\ Len(token_row) = 1
    /\ token_row[1].created_by = StrOf(issued[2].chat)
    /\ last.handler = "handle_system_actions_token"

\* C12: with no hash secret configured, a request of an administrator for a token
\* is answered with the configuration error alone: no token is issued or sent,
\* and the credential row, also one left by an earlier run, stays as it was.
C12_NoSecretRefuses ==
    [][ (last'.handler = "handle_system_actions_token" /\ secret = ""
            /\ StrOf(last'.chat) \in admin_ids)
          => /\ Len(sent') = 1
             /\ sent'[1].to = last'.chat
             /\ sent'[1].kind = "token_not_issued"
             /\ sent'[1].args = <<"ADMIN_TOKEN_HASH_SECRET is not set">>
             /\ token_row' = token_row
             /\ issued' = issued
             /\ issued' = <<>> ]_vars

\* an administrator asked for a token with no secret set, a row being stored
C12_Witness ==
    /\ last.handler = "handle_system_actions_token"
    /\ secret = ""
    /\ StrOf(last.chat) \in admin_ids
    /\ token_row = <<PriorRow>>
    /\ Len(sent) = 1
    /\ sent[1].kind = "token_not_issued"

----------------------------------------------------------------------------
(* Sessions: the wizards for posts, files, packages and videos              *)

Lowercase == <<"a","b","c","d","e","f","g","h","i","j","k","l","m",
              "n","o","p","q","r","s","t","u","v","w","x","y","z">>
Uppercase == <<"A","B","C","D","E","F","G","H","I","J","K","L","M",
              "N","O","P","Q","R","S","T","U","V","W","X","Y","Z">>

\* str.lower(), on ASCII
Lower(s) ==
    [i \in 1..Len(s) |->
        IF \E k \in 1..26 : Uppercase[k] = s[i]
        THEN Lowercase[CHOOSE k \in 1..26 : Uppercase[k] = s[i]]
        ELSE s[i]]

\* s.startswith(p)
StartsWith(s, p) == Len(s) >= Len(p) /\ Slice(s, 1, Len(p)) = p

\* int(text) succeeds: surrounding whitespace, an optional sign, then digits,
\* single underscores allowed between digits
IsInt(text) ==
    LET s == Strip(text)
        body == IF s /= <<>> /\ Head(s) \in {"+", "-"} THEN Tail(s) ELSE s
    IN  /\ body /= <<>>
        /\ \A i \in 1..Len(body) : IsDigit(body[i]) \/ body[i] = "_"
        /\ IsDigit(body[1]) /\ IsDigit(body[Len(body)])
        /\ \A i \in 1..(Len(body) - 1) : ~(body[i] = "_" /\ body[i + 1] = "_")

\* int(text), when it succeeds
IntValue(text) ==
    LET s == Strip(text)
        neg == s /= <<>> /\ Head(s) = "-"
        body == IF s /= <<>> /\ Head(s) \in {"+", "-"} THEN Tail(s) ELSE s
        n == IntOf(SelectSeq(body, IsDigit))
    IN  IF neg THEN 0 - n ELSE n

\* the characters re.sub(r"[^a-zA-Z...0-9\s-]", "", ...) keeps
SlugChar(ch) ==
    \/ IsDigit(ch) \/ IsSpace(ch) \/ ch = "-"
    \/ \E k \in 1..26 : Lowercase[k] = ch \/ Uppercase[k] = ch

\* runs of whitespace and dashes become one dash
RECURSIVE Dashes(_)
Dashes(s) ==
    IF s = <<>> THEN <<>>
    ELSE LET sep(ch) == IsSpace(ch) \/ ch = "-" IN
         IF sep(Head(s))
         THEN IF Len(s) > 1 /\ sep(s[2]) THEN Dashes(Tail(s))
              ELSE <<"-">> \o Dashes(Tail(s))
         ELSE <<Head(s)>> \o Dashes(Tail(s))

\* "x".strip("-")
StripDashes(s) ==
    LET a == IF s /= <<>> /\ Head(s) = "-" THEN Tail(s) ELSE s
    IN  IF a /= <<>> /\ a[Len(a)] = "-" THEN Slice(a, 1, Len(a) - 1) ELSE a

\* datetime.now().strftime('%Y%m%d-%H%M%S'), one name per second of the clock
Stamp(t) == StrOf(t)

\* the id that step add_pkg_name derives from the name; the transliteration
\* table maps Cyrillic letters and leaves the ASCII ones of this model as they are
PkgIdOf(name, t) ==
    LET slug == Strip(SelectSeq(Lower(name), SlugChar))
        transliterated == StripDashes(Dashes(slug))
    IN  IF transliterated = <<>> THEN <<"p", "k", "g", "-">> \o Stamp(t)
        ELSE transliterated

\* reply_markup=make_yoga_keyboard(), make_blog_keyboard(), ...
Kb(name) == <<Button(name, <<>>)>>

\* m[c] = v and m.pop(c, None) on the per-chat dicts are DictSet and DictDel

\* texts an operator types during a wizard: a name, nothing but whitespace,
\* numbers, a URL, "Нет" (no preview), and 10.02 10:00 11:00
Yoga == <<"Y", "o", "g", "a">>
Blank == <<" ">>
One == <<"1">>
Three == <<"3">>
MinusOne == <<"-", "1">>
Url == <<"h", "t", "t", "p", ":", "/", "/", "v">>
Net == <<"N", "e", "t">>

\* the texts tried in each state: one the step accepts and those it refuses
StepTexts(st) ==
    CASE st \in {"add_pkg_price", "edit_pkg_price"} -> {One, MinusOne, Yoga}
      [] st \in {"add_video_position", "edit_pkg_position"} -> {One, Three, Yoga}
      [] st = "add_video_file" -> {Url, Yoga, Blank}
      [] st = "add_post_preview" -> {Net, Yoga}
      [] st \in {"add_pkg_preview", "edit_pkg_preview"} -> {Net, TextExample}
      [] st = "add_slot" -> {TextExample, Yoga}
      [] st \in {None, "add_pkg_level"} -> {Yoga}
      [] OTHER -> {Yoga, Blank}

\* text.lower() in ("без превью", "нет превью", "нет"), transliterated
NoPreviewWords ==
    { <<"b", "e", "z", " ", "p", "r", "e", "v", "y", "u">>,
      <<"n", "e", "t", " ", "p", "r", "e", "v", "y", "u">>,
      <<"n", "e", "t">> }

Levels == { <<"B", "e", "g">>, <<"A", "l", "l">> }

YogaId == <<"y", "o", "g", "a">>
GoneId == <<"g", "o", "n", "e">>

\* the ids that package buttons still shown in a chat can carry
ButtonPkgIds == {YogaId, GoneId}

\* a video as _save_video_to_package writes it: title, duration and, when the
\* draft has one, videoUrl
Video(title, duration) ==
    DictSet(DictSet(EmptyDict, "title", title), "duration", duration)

\* a package as _finalize_new_package writes it
Package(id, name, level, description, price, image) ==
    [id |-> id, name |-> name, level |-> level, description |-> description,
     videos |-> <<>>, price |-> price, image |-> image, available |-> TRUE]

\* packages.json when the bot starts
PackageFiles ==
    { <<>>,
      <<[Package(YogaId, Yoga, <<"A", "l", "l">>, <<"d">>, 0, <<>>)
           EXCEPT !.videos = <<Video(<<"V", "1">>, <<"5">>)>>]>> }

PostName == <<"p", "1", ".", "m", "d">>
PostSlug == <<"p", "1">>

\* content/posts when the bot starts
PostDirs == { EmptyDict, DictSet(EmptyDict, PostName, <<"t", "e", "x", "t">>) }

PhotoFile == << <<"p", "h", "o", "t", "o", "s">>, <<"a", ".", "j", "p", "g">> >>

\* the files under public/ when the bot starts
PublicDirs == { {}, {PhotoFile} }

\* next((p for p in packages if p["id"] == pkg_id), None): its index, 0 for None
FindPkg(pkgs, pkg_id) ==
    IF \E i \in 1..Len(pkgs) : pkgs[i].id = pkg_id
    THEN CHOOSE i \in 1..Len(pkgs) :
            pkgs[i].id = pkg_id /\ \A j \in 1..(i - 1) : pkgs[j].id /= pkg_id
    ELSE 0

PAGE_SIZE_PKGS == 5

\* send_packages_list(chat_id, prefix, prompt), page 0
send_packages_list(c, prefix) ==
    IF packages = <<>> THEN <<Msg(c, "no_packages", <<>>, Kb("yoga_keyboard"))>>
    ELSE LET n == IF Len(packages) < PAGE_SIZE_PKGS THEN Len(packages)
                  ELSE PAGE_SIZE_PKGS
         IN  <<Msg(c, "packages_list", <<prefix>>,
                   [i \in 1..n |-> Button(prefix, packages[i].id)]
                     \o (IF n < Len(packages) THEN <<Button(prefix, <<"_page:1">>)>>
                         ELSE <<>>)
                     \o <<Button(prefix, <<"_cancel">>)>>)>>

\* the menu labels with a handler of their own that start or leave a wizard
Labels ==
    {"add_post", "delete_post", "edit_post", "manage_files", "show_packages",
     "add_package", "delete_package", "add_video", "edit_package", "delete_video"}

\* handle_add_post_start ... handle_delete_video_start: the handlers of the
\* labels "Добавить пост", "Удалить пост", "Редактировать пост", "Управление
\* файлами", "Показать пакеты", "Добавить пакет", "Удалить пакет", "Добавить
\* видео в пакет", "Редактировать пакет", "Удалить видео из пакета"
LabelButton(c, label) ==
    /\ last' = Event("label_" \o label, c, <<>>)
    /\ chat_state' = SetState(c, CASE label = "add_post" -> "add_post"
                                   [] label = "add_package" -> "add_pkg_name"
                                   [] OTHER -> None)
    /\ chat_pkg_draft' = IF label = "add_package"
                         THEN DictSet(chat_pkg_draft, c, EmptyDict)
                         ELSE chat_pkg_draft
    /\ sent' = CASE label = "add_post" ->
                      <<Msg(c, "add_post_help", <<>>, <<>>),
                        Msg(c, "add_post_example", <<>>, <<>>)>>
                 [] label = "delete_post" ->
                      IF DOMAIN posts = {}
                      THEN <<Msg(c, "no_posts", <<>>, Kb("blog_keyboard"))>>
                      ELSE <<Msg(c, "posts_page", <<>>, Kb("delpost"))>>
                 [] label = "edit_post" ->
                      IF DOMAIN posts = {}
                      THEN <<Msg(c, "no_posts", <<>>, Kb("blog_keyboard"))>>
                      ELSE <<Msg(c, "edit_posts_page", <<>>, Kb("editpost"))>>
                 [] label = "manage_files" ->
                      IF public_files = {}
                      THEN <<Msg(c, "no_media_dirs", <<>>, Kb("blog_keyboard"))>>
                      ELSE <<Msg(c, "media_dirs", <<>>, Kb("mf_dir"))>>
                 [] label = "show_packages" ->
                      IF packages = <<>>
                      THEN <<Msg(c, "no_packages_yet", <<>>, Kb("yoga_keyboard"))>>
                      ELSE <<Msg(c, "packages", <<>>, Kb("yoga_keyboard"))>>
                 [] label = "add_package" ->
                      <<Msg(c, "prompt_add_pkg_name", <<>>, Kb("yoga_keyboard"))>>
                 [] label = "delete_package" -> send_packages_list(c, "delpkg")
                 [] label = "add_video" -> send_packages_list(c, "addvid")
                 [] label = "edit_package" -> send_packages_list(c, "editpkg")
                 [] OTHER -> send_packages_list(c, "delvid")
    /\ UNCHANGED <<slotVars, today, authVars, parseVars, contentVars,
                   chat_pkg_target, chat_video_draft, chat_edit_vid_idx,
                   chat_post_files, chat_edit_post_files, chat_upload_dirs,
                   chat_rename_targets>>

\* what a handler that only replies leaves alone
ReplyOnly(h, c, data, msgs) ==
    /\ last' = Event(h, c, data)
    /\ sent' = msgs
    /\ UNCHANGED <<slotVars, chat_state, today, authVars, parseVars, draftVars,
                   contentVars>>

\* handle_pkg_cancel: delpkg_cancel, addvid_cancel, delvid_cancel, editpkg_cancel
handle_pkg_cancel(c, prefix) ==
    ReplyOnly("pkg_cancel", c, <<prefix>>,
              <<Answer(c, "cancel"),
                Msg(c, "action_cancelled", <<>>, Kb("yoga_keyboard"))>>)

\* handle_cancel_delete_post: cancel_delpost
handle_cancel_delete_post(c) ==
    ReplyOnly("cancel_delpost", c, <<>>,
              <<Answer(c, "post_deletion_cancelled"),
                Msg(c, "post_deletion_cancelled", <<>>, Kb("blog_keyboard"))>>)

\* handle_media_cancel: mf_cancel
handle_media_cancel(c) ==
    ReplyOnly("mf_cancel", c, <<>>,
              <<Answer(c, "files_closed"),
                Msg(c, "files_closed", <<>>, Kb("blog_keyboard"))>>)

\* the button cancel_editpost of send_edit_posts_page: no callback handler
\* matches its data, the press is not handled
cancel_editpost(c) == ReplyOnly("cancel_editpost", c, <<>>, <<>>)

\* handle_add_video_select_package: addvid:<pkg_id>:<page>
handle_add_video_select_package(c, pkg_id) ==
    /\ last' = Event("addvid", c, pkg_id)
    /\ IF FindPkg(packages, pkg_id) = 0
       THEN /\ sent' = <<Answer(c, "package_not_found")>>
            /\ UNCHANGED <<chat_state, chat_pkg_target, chat_video_draft>>
       ELSE /\ chat_pkg_target' = DictSet(chat_pkg_target, c, pkg_id)
            /\ chat_video_draft' = DictSet(chat_video_draft, c, EmptyDict)
            /\ chat_state' = SetState(c, "add_video_title")
            /\ sent' = <<Answer(c, ""),
                         Msg(c, "prompt_add_video_title", <<>>, Kb("yoga_keyboard"))>>
    /\ UNCHANGED <<slotVars, today, authVars, parseVars, contentVars, chat_pkg_draft,
                   chat_edit_vid_idx, chat_post_files, chat_edit_post_files,
                   chat_upload_dirs, chat_rename_targets>>

\* handle_package_level_select: pkg_level:<level>
handle_package_level_select(c, level) ==
    /\ last' = Event("pkg_level", c, level)
    /\ IF c \notin DOMAIN chat_pkg_draft \/ chat_pkg_draft[c] = EmptyDict
       THEN /\ sent' = <<Answer(c, "draft_lost")>>
            /\ UNCHANGED <<chat_state, chat_pkg_draft>>
       ELSE /\ chat_pkg_draft' =
                  DictSet(chat_pkg_draft, c, DictSet(chat_pkg_draft[c], "level", level))
            /\ chat_state' = SetState(c, "add_pkg_desc")
            /\ sent' = <<Answer(c, ""),
                         Msg(c, "prompt_add_pkg_desc", <<>>, Kb("yoga_keyboard"))>>
    /\ UNCHANGED <<slotVars, today, authVars, parseVars, contentVars, chat_pkg_target,
                   chat_video_draft, chat_edit_vid_idx, chat_post_files,
                   chat_edit_post_files, chat_upload_dirs, chat_rename_targets>>

\* _send_edit_pkg_menu(chat_id, pkg_id)
send_edit_pkg_menu(c, pkgs, pkg_id) ==
    IF FindPkg(pkgs, pkg_id) = 0
    THEN <<Msg(c, "package_not_found", <<>>, Kb("yoga_keyboard"))>>
    ELSE <<Msg(c, "edit_pkg_menu", <<pkg_id>>, Kb("epkg"))>>

\* the fields of the edit menu and the state each one opens; "level" opens none
EditFields ==
    [name |-> "edit_pkg_name", desc |-> "edit_pkg_desc", price |-> "edit_pkg_price",
     img |-> "edit_pkg_preview", pos |-> "edit_pkg_position", level |-> None,
     select |-> None]

\* handle_edit_package_select (editpkg:), handle_edit_pkg_name, _level, _desc,
\* _price, _image, _position (epkg_<field>:<pkg_id>)
EditPkgCallback(c, field, pkg_id) ==
    /\ last' = Event("epkg_" \o field, c, pkg_id)
    /\ chat_pkg_target' = DictSet(chat_pkg_target, c, pkg_id)
    /\ chat_state' = IF field \in {"level", "select"} THEN chat_state
                     ELSE SetState(c, EditFields[field])
    /\ sent' = IF field = "select"
               THEN <<Answer(c, "")>> \o send_edit_pkg_menu(c, packages, pkg_id)
               ELSE <<Answer(c, ""),
                      Msg(c, "prompt_edit_" \o field, <<>>,
                          Kb(IF field = "level" THEN "epkg_setlvl" ELSE "yoga_keyboard"))>>
    /\ UNCHANGED <<slotVars, today, authVars, parseVars, contentVars, chat_pkg_draft,
                   chat_video_draft, chat_edit_vid_idx, chat_post_files,
                   chat_edit_post_files, chat_upload_dirs, chat_rename_targets>>

\* handle_edit_video_rename: evid_rename:<pkg_id>|<idx>
handle_edit_video_rename(c, pkg_id, idx) ==
    /\ last' = Event("evid_rename", c, pkg_id)
    /\ chat_pkg_target' = DictSet(chat_pkg_target, c, pkg_id)
    /\ chat_edit_vid_idx' = DictSet(chat_edit_vid_idx, c, idx)
    /\ chat_state' = SetState(c, "edit_vid_title")
    /\ sent' = <<Answer(c, ""),
                 Msg(c, "prompt_edit_vid_title", <<>>, Kb("yoga_keyboard"))>>
    /\ UNCHANGED <<slotVars, today, authVars, parseVars, contentVars, chat_pkg_draft,
                   chat_video_draft, chat_post_files, chat_edit_post_files,
                   chat_upload_dirs, chat_rename_targets>>

\* handle_media_upload_start: mf_upload:<dir_name>
handle_media_upload_start(c, dir_name) ==
    /\ last' = Event("mf_upload", c, dir_name)
    /\ chat_state' = SetState(c, "upload_file")
    /\ chat_upload_dirs' = DictSet(chat_upload_dirs, c, dir_name)
    /\ sent' = <<Answer(c, ""), Msg(c, "prompt_upload_file", <<>>, Kb("blog_keyboard"))>>
    /\ UNCHANGED <<slotVars, today, authVars, parseVars, contentVars, chat_pkg_draft,
                   chat_pkg_target, chat_video_draft, chat_edit_vid_idx,
                   chat_post_files, chat_edit_post_files, chat_rename_targets>>

\* handle_media_rename_file_start: mf_rename:<dir_name>|<filename>
handle_media_rename_file_start(c, file) ==
    /\ last' = Event("mf_rename", c, file[2])
    /\ IF file \notin public_files
       THEN /\ sent' = <<Answer(c, "file_gone"),
                         Msg(c, "file_gone", <<>>, Kb("blog_keyboard"))>>
            /\ UNCHANGED <<chat_state, chat_rename_targets>>
       ELSE /\ chat_state' = SetState(c, "rename_file")
            /\ chat_rename_targets' = DictSet(chat_rename_targets, c, file)
            /\ sent' = <<Answer(c, ""),
                         Msg(c, "prompt_rename_file", <<>>, Kb("blog_keyboard"))>>
    /\ UNCHANGED <<slotVars, today, authVars, parseVars, contentVars, chat_pkg_draft,
                   chat_pkg_target, chat_video_draft, chat_edit_vid_idx,
                   chat_post_files, chat_edit_post_files, chat_upload_dirs>>

\* handle_edit_post_select: editpost:<slug>:<page>; reading the file can fail
handle_edit_post_select(c, slug, readable) ==
    LET filename == slug \o <<".", "m", "d">> IN
    /\ last' = Event("editpost", c, slug)
    /\ IF filename \notin DOMAIN posts
       THEN /\ sent' = <<Answer(c, "post_not_found"),
                         Msg(c, "post_not_found", <<>>, Kb("blog_keyboard"))>>
            /\ UNCHANGED <<chat_state, chat_edit_post_files>>
       ELSE IF ~readable
       THEN /\ sent' = <<Answer(c, "post_unreadable"),
                         Msg(c, "post_unreadable", <<>>, Kb("blog_keyboard"))>>
            /\ UNCHANGED <<chat_state, chat_edit_post_files>>
       ELSE /\ chat_edit_post_files' = DictSet(chat_edit_post_files, c, filename)
            /\ chat_state' = SetState(c, "edit_post")
            /\ sent' = <<Answer(c, ""),
                         Msg(c, "prompt_edit_post", <<posts[filename]>>,
                             Kb("blog_keyboard"))>>
    /\ UNCHANGED <<slotVars, today, authVars, parseVars, contentVars, chat_pkg_draft,
                   chat_pkg_target, chat_video_draft, chat_edit_vid_idx,
                   chat_post_files, chat_upload_dirs, chat_rename_targets>>

\* str.splitlines()
Lines(s) ==
    IF s = <<>> THEN <<>>
    ELSE IF s[Len(s)] = "\n" THEN SplitAll(Slice(s, 1, Len(s) - 1), "\n")
    ELSE SplitAll(s, "\n")

\* "\n".join(lines)
RECURSIVE JoinLines(_)
JoinLines(ls) ==
    IF ls = <<>> THEN <<>>
    ELSE IF Len(ls) = 1 THEN ls[1]
    ELSE ls[1] \o <<"\n">> \o JoinLines(Tail(ls))

Fence == <<"-", "-", "-">>
PreviewKey == <<"p", "r", "e", "v", "i", "e", "w", "I", "m", "a", "g", "e", ":">>

\* the text add_preview_to_post leaves in the file
WithPreview(text, image_path) ==
    LET lines == Lines(text)
        entry == PreviewKey \o <<" ", "\"">> \o image_path \o <<"\"">>
        closing == { i \in 2..Len(lines) : Strip(lines[i]) = Fence }
    IN  IF lines = <<>> \/ Strip(lines[1]) /= Fence
        THEN JoinLines(<<Fence, entry, Fence, <<>> >> \o lines)
        ELSE IF closing = {} THEN text
        ELSE LET end_idx == CHOOSE i \in closing : \A j \in closing : i <= j IN
             IF \E i \in 2..(end_idx - 1) : StartsWith(Strip(lines[i]), PreviewKey)
             THEN text
             ELSE JoinLines(<<Fence, entry>> \o Slice(lines, 2, end_idx - 1)
                              \o <<Fence>> \o Slice(lines, end_idx + 1, Len(lines)))

\* add_preview_to_post(filename, image_path), as a new value of content/posts
add_preview_to_post(ps, filename, image_path) ==
    IF filename \notin DOMAIN ps THEN ps
    ELSE DictSet(ps, filename, WithPreview(ps[filename], image_path))

NotGallery == <<"/", "n", "o", "t", "g", "a", "l", "l", "e", "r", "y", "/">>
VideosDir == <<"/", "v", "i", "d", "e", "o", "s", "/">>

MaxPackages == 2
MaxVideos == 2

\* what a handler of the wizards has written and sent when it returns or raises:
\* the per-chat dicts, the content files and the messages
Same ==
    [state |-> chat_state, pkg_draft |-> chat_pkg_draft, pkg_target |-> chat_pkg_target,
     video_draft |-> chat_video_draft, edit_vid_idx |-> chat_edit_vid_idx,
     post_files |-> chat_post_files, edit_post_files |-> chat_edit_post_files,
     upload_dirs |-> chat_upload_dirs, rename_targets |-> chat_rename_targets,
     packages |-> packages, posts |-> posts, public_files |-> public_files,
     msgs |-> <<>>]

\* bot.send_message(chat_id, ...); chat_state[chat_id] = None
Reply(e, m) == [e EXCEPT !.msgs = Append(@, m)]
Idle_Everyone(e, c) == [e EXCEPT !.state = [x \in DOMAIN @ |-> None]]
Idle(e, c) == [e EXCEPT !.state[c] = None]

\* _finalize_new_package(chat_id, image_path); ok: write_packages does not raise.
\* An exception leaves the handler before the reply and the reset.
finalize_new_package(c, image_path, ok) ==
    LET draft == IF c \in DOMAIN chat_pkg_draft THEN chat_pkg_draft[c] ELSE EmptyDict
        get(k, default) == IF k \in DOMAIN draft THEN draft[k] ELSE default
        id0 == get("id", <<"p", "k", "g", "-">> \o Stamp(now))
        id == IF FindPkg(packages, id0) /= 0 THEN id0 \o <<"-">> \o Stamp(now) ELSE id0
        new_package == Package(id, get("name", <<"N", "e", "w">>),
                               get("level", <<"A", "l", "l">>),
                               get("description", <<>>), get("price", 0), image_path)
    IN  IF ok
        THEN [Idle(Reply(Same, Msg(c, "package_created", <<id>>, Kb("yoga_keyboard"))), c)
                EXCEPT !.packages = Append(packages, new_package),
                       !.pkg_draft = DictDel(chat_pkg_draft, c)]
        ELSE Same

\* list.insert(position - 1, v) when 1 <= position <= len + 1, else append
InsertVideo(videos, position, v) ==
    IF position >= 1 /\ position <= Len(videos) + 1
    THEN Slice(videos, 1, position - 1) \o <<v>> \o Slice(videos, position, Len(videos))
    ELSE Append(videos, v)

\* _save_video_to_package(chat_id, pkg_id, draft), pkg_id being
\* chat_pkg_target.get(chat_id) and draft the dict the caller has just updated
\* in place; ok: write_packages does not raise
save_video_to_package(c, draft, ok) ==
    LET pkg_id == IF c \in DOMAIN chat_pkg_target THEN chat_pkg_target[c] ELSE <<>>
        k == FindPkg(packages, pkg_id)
        get(key, default) == IF key \in DOMAIN draft THEN draft[key] ELSE default
        video == Video(get("title", <<"?">>), get("duration", <<>>))
        new_video == IF get("videoUrl", <<>>) /= <<>>
                     THEN DictSet(video, "videoUrl", draft["videoUrl"]) ELSE video
        reset(e) == [Idle(e, c) EXCEPT !.pkg_target = DictDel(chat_pkg_target, c),
                                       !.video_draft = DictDel(chat_video_draft, c)]
    IN  IF pkg_id = <<>>
        THEN reset(Reply(Same, Msg(c, "no_target_package", <<>>, Kb("yoga_keyboard"))))
        ELSE IF k = 0
        THEN reset(Reply(Same, Msg(c, "package_gone", <<>>, Kb("yoga_keyboard"))))
        ELSE IF ok
        THEN [reset(Reply(Same, Msg(c, "video_added", <<pkg_id>>, Kb("yoga_keyboard"))))
                EXCEPT !.packages[k].videos = InsertVideo(@, get("position", 0), new_video)]
        ELSE [Same EXCEPT !.video_draft = IF c \in DOMAIN chat_video_draft
                                          THEN DictSet(chat_video_draft, c, draft)
                                          ELSE chat_video_draft]

\* the handler's writes and messages become the next state
Apply(e) ==
    /\ chat_state' = e.state
    /\ chat_pkg_draft' = e.pkg_draft
    /\ chat_pkg_target' = e.pkg_target
    /\ chat_video_draft' = e.video_draft
    /\ chat_edit_vid_idx' = e.edit_vid_idx
    /\ chat_post_files' = e.post_files
    /\ chat_edit_post_files' = e.edit_post_files
    /\ chat_upload_dirs' = e.upload_dirs
    /\ chat_rename_targets' = e.rename_targets
    /\ packages' = e.packages
    /\ posts' = e.posts
    /\ public_files' = e.public_files
    /\ sent' = e.msgs
    /\ UNCHANGED <<slots, bookings, today, authVars, parseVars, scenario>>

\* what an operator can send that is not text, and what can go wrong while it
\* is handled: the download from Telegram, the write of the received file, the
\* write of packages.json or of the post
MediaKinds == {"photo", "video"}
Failures == {"none", "download", "file", "json"}

DocumentName == <<"d", "o", "c", ".", "p", "d", "f">>

\* the name handle_media_message gives a received file
PreviewName(prefix) == prefix \o Stamp(now) \o <<".", "j", "p", "g">>
ReceivedName(kind, prefix) ==
    IF kind = "document" THEN DocumentName
    ELSE prefix \o Stamp(now)
           \o (IF kind = "photo" THEN <<".", "j", "p", "g">> ELSE <<".", "m", "p", "4">>)

\* handle_media_message in state add_post_preview
media_add_post_preview(c, kind, fail) ==
    LET filename == DictGet(chat_post_files, c)
        img_name == PreviewName(<<"p", "o", "s", "t", "-", "p", "r", "e", "v", "i", "e", "w", "-">>)
        web_path == NotGallery \o img_name
        written == [Same EXCEPT !.public_files = @ \cup {<<<<"n", "o", "t", "g", "a", "l", "l", "e", "r", "y">>, img_name>>}]
        done(e) == [Idle(e, c) EXCEPT !.post_files = DictDel(chat_post_files, c)]
    IN  IF filename = <<>>
        THEN Idle(Reply(Same, Msg(c, "no_post_for_photo", <<>>, Kb("blog_keyboard"))), c)
        ELSE IF kind /= "photo"
        THEN Reply(Same, Msg(c, "preview_needs_photo", <<>>, Kb("blog_keyboard")))
        ELSE IF fail = "download"
        THEN Reply(Same, Msg(c, "photo_download_failed", <<>>, Kb("blog_keyboard")))
        ELSE IF fail = "file" THEN Same
        ELSE IF fail = "json"
        THEN done(Reply(written, Msg(c, "preview_not_written", <<>>, Kb("blog_keyboard"))))
        ELSE [done(Reply(written, Msg(c, "preview_added", <<web_path>>, Kb("blog_keyboard"))))
                EXCEPT !.posts = add_preview_to_post(posts, filename, web_path)]

\* handle_media_message in state add_pkg_preview
media_add_pkg_preview(c, kind, fail) ==
    LET img_name == PreviewName(<<"p", "k", "g", "-", "p", "r", "e", "v", "i", "e", "w", "-">>)
        fin == finalize_new_package(c, NotGallery \o img_name, fail /= "json")
    IN  IF kind /= "photo"
        THEN Reply(Same, Msg(c, "pkg_preview_needs_photo", <<>>, Kb("yoga_keyboard")))
        ELSE IF fail = "download"
        THEN Reply(Same, Msg(c, "photo_download_failed", <<>>, Kb("yoga_keyboard")))
        ELSE IF fail = "file" THEN Same
        ELSE [fin EXCEPT !.public_files = @ \cup {<<<<"n", "o", "t", "g", "a", "l", "l", "e", "r", "y">>, img_name>>}]

\* handle_media_message in state edit_pkg_preview
media_edit_pkg_preview(c, kind, fail) ==
    LET pkg_id == DictGet(chat_pkg_target, c)
        k == FindPkg(packages, pkg_id)
        old_image == packages[k].image
        img_name == PreviewName(<<"p", "k", "g", "-", "p", "r", "e", "v", "i", "e", "w", "-">>)
        web_path == NotGallery \o img_name
        kept == IF StartsWith(old_image, NotGallery)
                THEN public_files
                       \ {<<<<"n", "o", "t", "g", "a", "l", "l", "e", "r", "y">>, Slice(old_image, Len(NotGallery) + 1, Len(old_image))>>}
                ELSE public_files
        written == [Same EXCEPT !.public_files = kept \cup {<<<<"n", "o", "t", "g", "a", "l", "l", "e", "r", "y">>, img_name>>}]
        updated == [packages EXCEPT ![k].image = web_path]
    IN  IF kind /= "photo"
        THEN Reply(Same, Msg(c, "edit_preview_needs_photo", <<>>, Kb("yoga_keyboard")))
        ELSE IF pkg_id = <<>>
        THEN Idle(Reply(Same, Msg(c, "package_undefined", <<>>, Kb("yoga_keyboard"))), c)
        ELSE IF fail = "download"
        THEN Reply(Same, Msg(c, "photo_download_failed", <<>>, Kb("yoga_keyboard")))
        ELSE IF k = 0
        THEN Idle(Reply(Same, Msg(c, "package_not_found", <<>>, Kb("yoga_keyboard"))), c)
        ELSE IF fail = "file"
        THEN [Same EXCEPT !.public_files = kept]
        ELSE IF fail = "json" THEN written
        ELSE [Idle(written, c) EXCEPT
                !.packages = updated,
                !.msgs = <<Msg(c, "preview_updated", <<web_path>>, Kb("yoga_keyboard"))>>
                           \o send_edit_pkg_menu(c, updated, pkg_id)]

\* handle_media_message in state add_video_file
media_add_video_file(c, kind, fail) ==
    LET name0 == ReceivedName(kind, <<"v", "i", "d", "e", "o", "-">>)
        filename == IF <<<<"v", "i", "d", "e", "o", "s">>, name0>> \in public_files
                    THEN (IF kind = "document" THEN <<"d", "o", "c", "-">> \o Stamp(now) \o <<".", "p", "d", "f">>
                          ELSE <<"v", "i", "d", "e", "o", "-">> \o Stamp(now) \o <<"-">> \o Stamp(now) \o <<".", "m", "p", "4">>)
                    ELSE name0
        draft == DictSet(DictGet(chat_video_draft, c), "videoUrl", VideosDir \o filename)
        saved == save_video_to_package(c, draft, fail /= "json")
    IN  IF kind = "photo"
        THEN Reply(Same, Msg(c, "video_needs_file", <<>>, Kb("yoga_keyboard")))
        ELSE IF fail = "download"
        THEN Reply(Same, Msg(c, "file_download_failed", <<>>, Kb("yoga_keyboard")))
        ELSE IF fail = "file"
        THEN Reply(Same, Msg(c, "video_not_saved", <<>>, Kb("yoga_keyboard")))
        ELSE [saved EXCEPT !.public_files = @ \cup {<<<<"v", "i", "d", "e", "o", "s">>, filename>>}]

\* handle_media_message in state upload_file
media_upload_file(c, kind, fail) ==
    LET dir_name == DictGet(chat_upload_dirs, c)
        filename == ReceivedName(kind, <<"u", "p", "l", "o", "a", "d", "-">>)
    IN  IF dir_name = <<>>
        THEN Idle(Reply(Same, Msg(c, "no_upload_dir", <<>>, Kb("blog_keyboard"))), c)
        ELSE IF fail = "download"
        THEN Reply(Same, Msg(c, "file_download_failed", <<>>, Kb("blog_keyboard")))
        ELSE IF fail = "file"
        THEN Reply(Same, Msg(c, "file_not_saved", <<>>, Kb("blog_keyboard")))
        ELSE [Idle(Same, c) EXCEPT
                !.public_files = @ \cup {<<dir_name, filename>>},
                !.upload_dirs = DictDel(chat_upload_dirs, c),
                !.msgs = <<Msg(c, "file_uploaded", <<dir_name, filename>>,
                               <<Button("mf_keepname", <<dir_name, filename>>),
                                 Button("mf_rename", <<dir_name, filename>>),
                                 Button("mf_cancel", <<>>)>>)>>]

\* handle_media_message: a photo, a video or a document arrives; in a state
\* that expects none the handler returns without a word
media_message(c, kind, fail) ==
    CASE chat_state[c] = "add_post_preview" -> media_add_post_preview(c, kind, fail)
      [] chat_state[c] = "add_pkg_preview" -> media_add_pkg_preview(c, kind, fail)
      [] chat_state[c] = "edit_pkg_preview" -> media_edit_pkg_preview(c, kind, fail)
      [] chat_state[c] = "add_video_file" -> media_add_video_file(c, kind, fail)
      [] chat_state[c] = "upload_file" -> media_upload_file(c, kind, fail)
      [] OTHER -> Same

\* a failure is an event of the run only where the handler gets to the call
\* that fails
handle_media_message(c, kind, fail) ==
    /\ fail = "none" \/ media_message(c, kind, fail) /= media_message(c, kind, "none")
    /\ last' = Event("handle_media_message", c, <<kind, fail>>)
    /\ Apply(media_message(c, kind, fail))

\* create_blog_post_file: post-<timestamp>.md
NewPostName == <<"p", "o", "s", "t", "-">> \o Stamp(now) \o <<".", "m", "d">>

\* handle_text in state add_post; ok: the post file can be written
text_add_post(c, text, ok) ==
    LET content == Strip(text) IN
    IF content = <<>>
    THEN Reply(Same, Msg(c, "post_empty", <<>>, Kb("blog_keyboard")))
    ELSE IF ~ok
    THEN Idle(Reply(Same, Msg(c, "post_not_saved", <<>>, Kb("blog_keyboard"))), c)
    ELSE [Reply(Same, Msg(c, "post_saved", <<NewPostName>>, Kb("blog_keyboard")))
            EXCEPT !.posts = DictSet(posts, NewPostName, content),
                   !.post_files = DictSet(chat_post_files, c, NewPostName),
                   !.state[c] = "add_post_preview"]

\* handle_text in state add_post_preview
text_add_post_preview(c, text) ==
    IF Lower(Strip(text)) \in NoPreviewWords
    THEN [Idle(Reply(Same, Msg(c, "post_without_preview", <<>>, Kb("blog_keyboard"))), c)
            EXCEPT !.post_files = DictDel(chat_post_files, c)]
    ELSE Reply(Same, Msg(c, "prompt_post_preview", <<>>, Kb("blog_keyboard")))

\* handle_text in state edit_post
text_edit_post(c, text, ok) ==
    LET content == Strip(text)
        filename == DictGet(chat_edit_post_files, c)
        done(e) == [Idle(e, c) EXCEPT !.edit_post_files = DictDel(chat_edit_post_files, c)]
    IN  IF content = <<>>
        THEN Reply(Same, Msg(c, "edited_post_empty", <<>>, Kb("blog_keyboard")))
        ELSE IF filename = <<>>
        THEN Idle(Reply(Same, Msg(c, "no_post_edited", <<>>, Kb("blog_keyboard"))), c)
        ELSE IF ~ok
        THEN done(Reply(Same, Msg(c, "post_changes_not_saved", <<>>, Kb("blog_keyboard"))))
        ELSE [done(Reply(Same, Msg(c, "post_updated", <<filename>>, Kb("blog_keyboard"))))
                EXCEPT !.posts = DictSet(posts, filename, content)]

Suffix_Never(name) == <<>>

\* Path(name).suffix: from the last dot on, when the dot is not the first
\* character and something follows it
Suffix(name) ==
    LET dots == {i \in 2..Len(name) : name[i] = "."} IN
    IF dots = {} THEN <<>>
    ELSE LET i == CHOOSE d \in dots : \A e \in dots : e <= d IN
         IF i = Len(name) THEN <<>> ELSE Slice(name, i, Len(name))

\* handle_text in state rename_file; ok: Path.rename does not raise
text_rename_file(c, text, ok) ==
    LET typed == Strip(text)
        target_info == DictGet(chat_rename_targets, c)
        dir_name == target_info[1]
        old_name == target_info[2]
        new_name == IF Suffix(typed) = <<>> /\ Suffix(old_name) /= <<>>
                    THEN typed \o Suffix(old_name) ELSE typed
        done(e) == [Idle(e, c) EXCEPT !.rename_targets = DictDel(chat_rename_targets, c)]
    IN  IF typed = <<>>
        THEN Reply(Same, Msg(c, "file_name_empty", <<>>, Kb("blog_keyboard")))
        ELSE IF \E i \in 1..Len(typed) : typed[i] \in {"/", "\\"}
        THEN Reply(Same, Msg(c, "file_name_has_slash", <<>>, Kb("blog_keyboard")))
        ELSE IF target_info = <<>>
        THEN Idle(Reply(Same, Msg(c, "no_rename_target", <<>>, Kb("blog_keyboard"))), c)
        ELSE IF <<dir_name, old_name>> \notin public_files
        THEN done(Reply(Same, Msg(c, "source_file_gone", <<>>, Kb("blog_keyboard"))))
        ELSE IF <<dir_name, new_name>> \in public_files
        THEN Reply(Same, Msg(c, "file_name_taken", <<>>, Kb("blog_keyboard")))
        ELSE IF ~ok
        THEN done(Reply(Same, Msg(c, "file_not_renamed", <<>>, Kb("blog_keyboard"))))
        ELSE [done(Reply(Same, Msg(c, "file_renamed", <<old_name, new_name>>,
                                   Kb("blog_keyboard"))))
                EXCEPT !.public_files = (@ \ {<<dir_name, old_name>>})
                                          \cup {<<dir_name, new_name>>}]

\* the common end of the edit_pkg_* steps: pkgs is written, the change is
\* reported, the chat is idle again and the edit menu is shown; ok: write_packages
\* does not raise
edit_pkg_done(c, pkg_id, pkgs, kind, args, ok) ==
    IF ~ok THEN Same
    ELSE [Idle(Same, c) EXCEPT
            !.packages = pkgs,
            !.msgs = <<Msg(c, kind, args, Kb("yoga_keyboard"))>>
                       \o send_edit_pkg_menu(c, pkgs, pkg_id)]

package_not_found(c) ==
    Idle(Reply(Same, Msg(c, "package_not_found", <<>>, Kb("yoga_keyboard"))), c)

\* handle_text in state edit_pkg_name
text_edit_pkg_name(c, text, ok) ==
    LET new_name == Strip(text)
        pkg_id == DictGet(chat_pkg_target, c)
        k == FindPkg(packages, pkg_id)
    IN  IF new_name = <<>>
        THEN Reply(Same, Msg(c, "name_empty", <<>>, Kb("yoga_keyboard")))
        ELSE IF k = 0 THEN package_not_found(c)
        ELSE edit_pkg_done(c, pkg_id, [packages EXCEPT ![k].name = new_name],
                           "name_changed", <<packages[k].name, new_name>>, ok)

\* handle_text in state edit_pkg_desc
text_edit_pkg_desc(c, text, ok) ==
    LET new_desc == Strip(text)
        pkg_id == DictGet(chat_pkg_target, c)
        k == FindPkg(packages, pkg_id)
    IN  IF new_desc = <<>>
        THEN Reply(Same, Msg(c, "description_empty", <<>>, Kb("yoga_keyboard")))
        ELSE IF k = 0 THEN package_not_found(c)
        ELSE edit_pkg_done(c, pkg_id, [packages EXCEPT ![k].description = new_desc],
                           "description_updated", <<>>, ok)

ValidPrice_AnyInteger(text) == IsInt(text)

\* price = int(price_text) and price >= 0
ValidPrice(text) == IsInt(text) /\ IntValue(text) >= 0

\* handle_text in state edit_pkg_price
text_edit_pkg_price(c, text, ok) ==
    LET pkg_id == DictGet(chat_pkg_target, c)
        k == FindPkg(packages, pkg_id)
    IN  IF ~ValidPrice(text)
        THEN Reply(Same, Msg(c, "price_invalid", <<>>, Kb("yoga_keyboard")))
        ELSE IF k = 0 THEN package_not_found(c)
        ELSE edit_pkg_done(c, pkg_id, [packages EXCEPT ![k].price = IntValue(text)],
                           "price_changed", <<packages[k].price, IntValue(text)>>, ok)

\* 1 <= int(text) <= total
ValidPosition(text, total) ==
    IsInt(text) /\ IntValue(text) >= 1 /\ IntValue(text) <= total

\* the packages at the two positions change places
MovePackage_Swap(pkgs, old_pos, new_pos) ==
    [i \in 1..Len(pkgs) |-> IF i = old_pos THEN pkgs[new_pos]
                             ELSE IF i = new_pos THEN pkgs[old_pos] ELSE pkgs[i]]

\* pkg = packages.pop(old_idx); packages.insert(new_idx, pkg), positions from 1
MovePackage(pkgs, old_pos, new_pos) ==
    LET rest == Slice(pkgs, 1, old_pos - 1) \o Slice(pkgs, old_pos + 1, Len(pkgs)) IN
    Slice(rest, 1, new_pos - 1) \o <<pkgs[old_pos]>> \o Slice(rest, new_pos, Len(rest))

\* handle_text in state edit_pkg_position
text_edit_pkg_position(c, text, ok) ==
    LET pkg_id == DictGet(chat_pkg_target, c)
        k == FindPkg(packages, pkg_id)
        new_pos == IntValue(text)
    IN  IF ~ValidPosition(text, Len(packages))
        THEN Reply(Same, Msg(c, "position_invalid", <<Len(packages)>>, Kb("yoga_keyboard")))
        ELSE IF k = 0 THEN package_not_found(c)
        ELSE IF k = new_pos
        THEN [Idle(Same, c) EXCEPT
                !.msgs = <<Msg(c, "already_at_position", <<>>, Kb("yoga_keyboard"))>>
                           \o send_edit_pkg_menu(c, packages, pkg_id)]
        ELSE edit_pkg_done(c, pkg_id, MovePackage(packages, k, new_pos),
                           "package_moved", <<packages[k].name, new_pos>>, ok)

\* handle_text in state edit_pkg_preview: a short text is taken as an emoji
text_edit_pkg_preview(c, text, ok) ==
    LET emoji == Strip(text)
        pkg_id == DictGet(chat_pkg_target, c)
        k == FindPkg(packages, pkg_id)
        old_image == packages[k].image
        kept == IF StartsWith(old_image, NotGallery)
                THEN public_files
                       \ {<<<<"n", "o", "t", "g", "a", "l", "l", "e", "r", "y">>, Slice(old_image, Len(NotGallery) + 1, Len(old_image))>>}
                ELSE public_files
        done == edit_pkg_done(c, pkg_id, [packages EXCEPT ![k].image = emoji],
                              "preview_updated", <<emoji>>, ok)
    IN  IF emoji = <<>> \/ Len(emoji) > 10 \/ StartsWith(emoji, <<"/">>)
        THEN Reply(Same, Msg(c, "prompt_photo_or_emoji", <<>>, Kb("yoga_keyboard")))
        ELSE IF pkg_id = <<>>
        THEN Idle(Reply(Same, Msg(c, "package_undefined", <<>>, Kb("yoga_keyboard"))), c)
        ELSE IF k = 0 THEN package_not_found(c)
        ELSE [done EXCEPT !.public_files = kept]

\* handle_text in state edit_vid_title; the index of the video counts from 0
text_edit_vid_title(c, text, ok) ==
    LET new_title == Strip(text)
        pkg_id == DictGet(chat_pkg_target, c)
        k == FindPkg(packages, pkg_id)
        idx == chat_edit_vid_idx[c]
        old_title == DictGet(packages[k].videos[idx + 1], "title")
        renamed == [packages EXCEPT
                      ![k].videos[idx + 1] = DictSet(@, "title", new_title)]
    IN  IF new_title = <<>>
        THEN Reply(Same, Msg(c, "name_empty", <<>>, Kb("yoga_keyboard")))
        ELSE IF c \notin DOMAIN chat_pkg_target \/ c \notin DOMAIN chat_edit_vid_idx
        THEN Idle(Reply(Same, Msg(c, "edit_data_lost", <<>>, Kb("yoga_keyboard"))), c)
        ELSE IF k = 0 \/ idx >= Len(packages[k].videos)
        THEN Idle(Reply(Same, Msg(c, "package_or_video_not_found", <<>>,
                                  Kb("yoga_keyboard"))), c)
        ELSE IF ~ok THEN Same
        ELSE [Idle(Same, c) EXCEPT
                !.packages = renamed,
                !.edit_vid_idx = DictDel(chat_edit_vid_idx, c),
                !.msgs = <<Msg(c, "video_renamed", <<old_title, new_title>>,
                               Kb("yoga_keyboard")),
                           Msg(c, "edit_video_list", <<pkg_id>>, Kb("evid"))>>]

\* draft = chat_pkg_draft.get(chat_id, {}); draft[key] = value;
\* chat_pkg_draft[chat_id] = draft
DraftSet(drafts, c, key, value) == DictSet(drafts, c, DictSet(DictGet(drafts, c), key, value))

\* handle_text in state add_pkg_name
text_add_pkg_name(c, text) ==
    LET name == Strip(text)
        id == PkgIdOf(name, now)
    IN  IF name = <<>>
        THEN Reply(Same, Msg(c, "pkg_name_empty", <<>>, Kb("yoga_keyboard")))
        ELSE [Reply(Same, Msg(c, "prompt_add_pkg_level", <<name, id>>, Kb("pkg_level")))
                EXCEPT !.pkg_draft = DraftSet(DraftSet(chat_pkg_draft, c, "name", name),
                                              c, "id", id),
                       !.state[c] = "add_pkg_level"]

\* handle_text in state add_pkg_desc
text_add_pkg_desc(c, text) ==
    LET desc == Strip(text) IN
    IF desc = <<>>
    THEN Reply(Same, Msg(c, "pkg_description_empty", <<>>, Kb("yoga_keyboard")))
    ELSE [Reply(Same, Msg(c, "prompt_add_pkg_price", <<>>, Kb("yoga_keyboard")))
            EXCEPT !.pkg_draft = DraftSet(chat_pkg_draft, c, "description", desc),
                   !.state[c] = "add_pkg_price"]

\* handle_text in state add_pkg_price
text_add_pkg_price(c, text) ==
    IF ~ValidPrice(text)
    THEN Reply(Same, Msg(c, "price_invalid", <<>>, Kb("yoga_keyboard")))
    ELSE [Same EXCEPT
            !.pkg_draft = DraftSet(chat_pkg_draft, c, "price", IntValue(text)),
            !.state[c] = "add_pkg_preview",
            !.msgs = <<Msg(c, "price_set", <<IntValue(text)>>, <<>>),
                       Msg(c, "prompt_add_pkg_preview", <<>>, Kb("yoga_keyboard"))>>]

\* handle_text in state add_pkg_preview
text_add_pkg_preview(c, text, ok) ==
    LET t == Strip(text) IN
    IF Lower(t) \in NoPreviewWords THEN finalize_new_package(c, <<>>, ok)
    ELSE IF t /= <<>> /\ Len(t) <= 10 /\ ~StartsWith(t, <<"/">>)
    THEN finalize_new_package(c, t, ok)
    ELSE Reply(Same, Msg(c, "prompt_photo_emoji_or_none", <<>>, Kb("yoga_keyboard")))

\* handle_text in state add_video_title
text_add_video_title(c, text) ==
    LET title == Strip(text) IN
    IF title = <<>>
    THEN Reply(Same, Msg(c, "video_title_empty", <<>>, Kb("yoga_keyboard")))
    ELSE [Reply(Same, Msg(c, "prompt_add_video_duration", <<title>>, Kb("yoga_keyboard")))
            EXCEPT !.video_draft = DraftSet(chat_video_draft, c, "title", title),
                   !.state[c] = "add_video_duration"]

\* the videos of the chat's target package, [] without a target or a package
TargetVideos(c) ==
    LET k == FindPkg(packages, DictGet(chat_pkg_target, c)) IN
    IF k = 0 THEN <<>> ELSE packages[k].videos

\* the duration step without the shortcut for the empty package
text_add_video_duration_AlwaysAsks(c, text) ==
    LET duration == Strip(text) IN
    IF duration = <<>>
    THEN Reply(Same, Msg(c, "video_duration_empty", <<>>, Kb("yoga_keyboard")))
    ELSE [Reply(Same, Msg(c, "prompt_add_video_position",
                          <<duration, Len(TargetVideos(c)) + 1>>, Kb("yoga_keyboard")))
            EXCEPT !.video_draft = DraftSet(chat_video_draft, c, "duration", duration),
                   !.state[c] = "add_video_position"]

\* handle_text in state add_video_duration
text_add_video_duration(c, text) ==
    LET duration == Strip(text)
        with_duration == DraftSet(chat_video_draft, c, "duration", duration)
    IN  IF duration = <<>>
        THEN Reply(Same, Msg(c, "video_duration_empty", <<>>, Kb("yoga_keyboard")))
        ELSE IF TargetVideos(c) = <<>>
        THEN [Reply(Same, Msg(c, "prompt_add_video_file", <<duration>>, Kb("yoga_keyboard")))
                EXCEPT !.video_draft = DraftSet(with_duration, c, "position", 1),
                       !.state[c] = "add_video_file"]
        ELSE [Reply(Same, Msg(c, "prompt_add_video_position",
                              <<duration, Len(TargetVideos(c)) + 1>>, Kb("yoga_keyboard")))
                EXCEPT !.video_draft = with_duration,
                       !.state[c] = "add_video_position"]

\* handle_text in state add_video_position
text_add_video_position(c, text) ==
    LET total == Len(TargetVideos(c)) IN
    IF ~ValidPosition(text, total + 1)
    THEN Reply(Same, Msg(c, "position_invalid", <<total + 1>>, Kb("yoga_keyboard")))
    ELSE [Reply(Same, Msg(c, "prompt_add_video_file", <<IntValue(text)>>,
                          Kb("yoga_keyboard")))
            EXCEPT !.video_draft = DraftSet(chat_video_draft, c, "position", IntValue(text)),
                   !.state[c] = "add_video_file"]

\* text.startswith("http://") or text.startswith("https://") or text.startswith("/")
IsUrl(t) ==
    StartsWith(t, <<"h", "t", "t", "p", ":", "/", "/">>) \/ StartsWith(t, <<"h", "t", "t", "p", "s", ":", "/", "/">>) \/ StartsWith(t, <<"/">>)

\* handle_text in state add_video_file
text_add_video_file(c, text, ok) ==
    LET t == Strip(text) IN
    IF t = <<>>
    THEN Reply(Same, Msg(c, "prompt_video_or_link", <<>>, Kb("yoga_keyboard")))
    ELSE IF ~IsUrl(t)
    THEN Reply(Same, Msg(c, "prompt_video_or_http_link", <<>>, Kb("yoga_keyboard")))
    ELSE save_video_to_package(c, DictSet(DictGet(chat_video_draft, c), "videoUrl", t), ok)

\* the states with a branch of their own in handle_text before add_slot
TextStates ==
    {"add_post", "add_post_preview", "edit_post", "rename_file", "edit_pkg_name",
     "edit_pkg_desc", "edit_pkg_price", "edit_pkg_position", "edit_pkg_preview",
     "edit_vid_title", "add_pkg_name", "add_pkg_desc", "add_pkg_price",
     "add_pkg_preview", "add_video_title", "add_video_duration",
     "add_video_position", "add_video_file"}

\* handle_text, the branches of the wizards; ok: the write of the step, if it
\* makes one, does not raise
wizard_text(c, text, ok) ==
    LET st == chat_state[c] IN
    CASE st = "add_post" -> text_add_post(c, text, ok)
      [] st = "add_post_preview" -> text_add_post_preview(c, text)
      [] st = "edit_post" -> text_edit_post(c, text, ok)
      [] st = "rename_file" -> text_rename_file(c, text, ok)
      [] st = "edit_pkg_name" -> text_edit_pkg_name(c, text, ok)
      [] st = "edit_pkg_desc" -> text_edit_pkg_desc(c, text, ok)
      [] st = "edit_pkg_price" -> text_edit_pkg_price(c, text, ok)
      [] st = "edit_pkg_position" -> text_edit_pkg_position(c, text, ok)
      [] st = "edit_pkg_preview" -> text_edit_pkg_preview(c, text, ok)
      [] st = "edit_vid_title" -> text_edit_vid_title(c, text, ok)
      [] st = "add_pkg_name" -> text_add_pkg_name(c, text)
      [] st = "add_pkg_desc" -> text_add_pkg_desc(c, text)
      [] st = "add_pkg_price" -> text_add_pkg_price(c, text)
      [] st = "add_pkg_preview" -> text_add_pkg_preview(c, text, ok)
      [] st = "add_video_title" -> text_add_video_title(c, text)
      [] st = "add_video_duration" -> text_add_video_duration(c, text)
      [] st = "add_video_position" -> text_add_video_position(c, text)
      [] OTHER -> text_add_video_file(c, text, ok)

\* a step's write raises and nothing catches it: is that the case of (c, text)?
\* True when the outcome depends on ok.
Writes(c, text) == wizard_text(c, text, TRUE) /= wizard_text(c, text, FALSE)

\* handle_text for a chat in one of the wizards' text steps
WizardText(c, text, ok) ==
    /\ chat_state[c] \in TextStates
    /\ ok \/ Writes(c, text)
    /\ last' = Event("handle_text", c, text)
    /\ Apply(wizard_text(c, text, ok))

\* handle_text in state add_slot when write_slots raises: the exception leaves
\* the handler before the reply and before the state is reset
AddSlotWriteFails(c, text) ==
    /\ chat_state[c] = "add_slot"
    /\ handle_add_slot(c, text).slots /= slots
    /\ last' = Event("handle_text", c, text)
    /\ Apply(Same)

\* the lists whose cancel button handle_pkg_cancel answers
CancelPrefixes == {"delpkg", "addvid", "delvid", "editpkg"}

\* the model stops adding packages and videos at these sizes
WithinBounds ==
    /\ Len(packages') <= MaxPackages
    /\ \A k \in 1..Len(packages') : Len(packages'[k].videos) <= MaxVideos

\* One run follows the operators through one part of the bot: the handlers a
\* scenario leaves out are those of the other parts.
Scenarios == {"posts", "files", "new_package", "edit_package", "videos", "slots"}

ScenarioLabels ==
    [posts |-> {"add_post", "delete_post", "edit_post"},
     files |-> {"manage_files"},
     new_package |-> {"add_package", "show_packages"},
     edit_package |-> {"edit_package"},
     videos |-> {"add_video", "delete_video"},
     slots |-> {"delete_package"}]

ScenarioMenus ==
    [posts |-> {"blog_menu"}, files |-> {"blog_menu"}, new_package |-> {"lessons_menu"},
     edit_package |-> {"lessons_menu"}, videos |-> {"lessons_menu"},
     slots |-> {"schedule_menu", "main_menu"}]

ScenarioCancels ==
    [posts |-> {}, files |-> {}, new_package |-> {"delpkg"}, edit_package |-> {"editpkg"},
     videos |-> {"addvid", "delvid"}, slots |-> {"delpkg"}]

\* the content when the bot starts: none at all, or a package, a post and a file
Contents ==
    { <<pf, pd, fs>> \in PackageFiles \X PostDirs \X PublicDirs :
         (pf = <<>>) = (pd = EmptyDict) /\ (pf = <<>>) = (fs = {}) }

InitSession ==
    /\ slots = EmptyDict
    /\ bookings = <<>>
    /\ chat_state = [c \in Chats |-> None]
    /\ today = [y |-> 2026, m |-> 2, d |-> 11]
    /\ sent = <<>>
    /\ last = NoEvent
    /\ AuthIdle
    /\ ParseIdle
    /\ chat_pkg_draft = EmptyDict
    /\ chat_pkg_target = EmptyDict
    /\ chat_video_draft = EmptyDict
    /\ chat_edit_vid_idx = EmptyDict
    /\ chat_post_files = EmptyDict
    /\ chat_edit_post_files = EmptyDict
    /\ chat_upload_dirs = EmptyDict
    /\ chat_rename_targets = EmptyDict
    /\ \E content \in Contents :
          /\ packages = content[1]
          /\ posts = content[2]
          /\ public_files = content[3]
    /\ scenario \in Scenarios

\* Both operators work through the scenarios of posts, files and slots; in
\* those of packages and videos the second one only opens the wizards.
Full(c) == c = 1 \/ scenario \in {"posts", "files", "slots"}

NextSession ==
    \/ \E c \in Chats : \E label \in ScenarioLabels[scenario] : LabelButton(c, label)
    \/ \E c \in Chats : scenario = "slots" /\ AddSlotButton(c)
    \/ \E c \in Chats : scenario = "slots" /\ ShowSlots(c)
    \/ \E c \in Chats : \E menu \in ScenarioMenus[scenario] : OtherMenu(c, menu)
    \/ \E c \in Chats : \E prefix \in ScenarioCancels[scenario] : handle_pkg_cancel(c, prefix)
    \/ \E c \in Chats : scenario = "posts" /\ handle_cancel_delete_post(c)
    \/ \E c \in Chats : scenario = "files" /\ handle_media_cancel(c)
    \/ \E c \in Chats : scenario = "posts" /\ cancel_editpost(c)
    \/ \E c \in Chats, pkg_id \in ButtonPkgIds :
          scenario = "videos" /\ handle_add_video_select_package(c, pkg_id)
    \/ \E c \in Chats, level \in Levels :
          scenario = "new_package" /\ Full(c) /\ handle_package_level_select(c, level)
    \/ \E c \in Chats, field \in DOMAIN EditFields :
          /\ scenario = "edit_package"
          /\ Full(c) \/ field = "name"
          /\ EditPkgCallback(c, field, YogaId)
    \/ \E c \in Chats, idx \in 0..1 :
          scenario = "edit_package" /\ Full(c) /\ handle_edit_video_rename(c, YogaId, idx)
    \/ \E c \in Chats : scenario = "files" /\ handle_media_upload_start(c, PhotoFile[1])
    \/ \E c \in Chats : scenario = "files" /\ handle_media_rename_file_start(c, PhotoFile)
    \/ \E c \in Chats, readable \in BOOLEAN :
          scenario = "posts" /\ handle_edit_post_select(c, PostSlug, readable)
    \/ \E c \in Chats, kind \in MediaKinds, fail \in Failures :
          Full(c) /\ handle_media_message(c, kind, fail) /\ WithinBounds
    \/ \E c \in Chats, ok \in BOOLEAN : \E text \in StepTexts(chat_state[c]) :
          Full(c) /\ WizardText(c, text, ok) /\ WithinBounds
    \/ \E c \in Chats : \E text \in StepTexts(chat_state[c]) :
          Full(c) /\ chat_state[c] \notin TextStates /\ handle_text(c, text)
    \/ \E c \in Chats : \E text \in StepTexts(chat_state[c]) : AddSlotWriteFails(c, text)

SpecSession == InitSession /\ [][NextSession]_vars

----------------------------------------------------------------------------
(* Properties of the sessions                                               *)

\* the entry of chat b in a per-chat dict: absent, or its value
Entry(m, b) == IF b \in DOMAIN m THEN <<m[b]>> ELSE <<>>

\* the state and the drafts and targets of chat b
Session(b) ==
    <<chat_state[b], Entry(chat_pkg_draft, b), Entry(chat_pkg_target, b),
      Entry(chat_video_draft, b), Entry(chat_edit_vid_idx, b), Entry(chat_post_files, b),
      Entry(chat_edit_post_files, b), Entry(chat_upload_dirs, b),
      Entry(chat_rename_targets, b)>>

\* C13: handling an event of chat A leaves the state and every draft and target
\* entry of every other chat B as they were.
C13_OtherChatsUntouched ==
    [][\A b \in Chats : b /= last'.chat => Session(b)' = Session(b)]_vars

\* chat 1 has typed the name of its new package while chat 2 waits in a wizard
\* of its own with a draft of its own
C13_Witness ==
    /\ last.handler = "handle_text" /\ last.chat = 1
    /\ chat_state[1] = "add_pkg_level"
    /\ Entry(chat_pkg_draft, 1) /= <<>>
    /\ chat_state[2] = "add_pkg_name"
    /\ Entry(chat_pkg_draft, 2) = <<EmptyDict>>

\* chat c has a non-empty entry in the per-chat dict m
HasDraft(m, c) == c \in DOMAIN m /\ m[c] /= EmptyDict

\* the steps of the wizard that fills each draft
AddPkgSteps ==
    {"add_pkg_name", "add_pkg_level", "add_pkg_desc", "add_pkg_price", "add_pkg_preview"}
AddVideoSteps ==
    {"add_video_title", "add_video_duration", "add_video_position", "add_video_file"}

\* C14: a chat holds a non-empty draft (chat_pkg_draft, chat_video_draft,
\* chat_post_files, chat_edit_post_files, chat_upload_dirs, chat_rename_targets)
\* only while it is in a step of the wizard that draft belongs to; an idle chat
\* holds none.
C14_DraftsFollowState ==
    \A c \in Chats :
        /\ HasDraft(chat_pkg_draft, c) => chat_state[c] \in AddPkgSteps
        /\ HasDraft(chat_video_draft, c) => chat_state[c] \in AddVideoSteps
        /\ HasDraft(chat_post_files, c) => chat_state[c] = "add_post_preview"
        /\ HasDraft(chat_edit_post_files, c) => chat_state[c] = "edit_post"
        /\ HasDraft(chat_upload_dirs, c) => chat_state[c] = "upload_file"
        /\ HasDraft(chat_rename_targets, c) => chat_state[c] = "rename_file"

\* the steps that await a text and nothing else, and the step that awaits the
\* press of a level button
TextOnlySteps ==
    (TextStates \ {"add_post_preview", "add_pkg_preview", "edit_pkg_preview",
                   "add_video_file"}) \cup {"add_slot"}

\* the events of the menu labels
LabelEvents ==
    {"label_" \o l : l \in Labels}
      \cup {"handle_main_menus", "handle_buttons_add_slot", "handle_buttons_show_slots"}

\* the event handled in this step is an input of another class than the step
\* of chat c awaits
WrongClass(c) ==
    /\ last'.chat = c
    /\ \/ chat_state[c] \in TextOnlySteps
          /\ last'.handler \in {"handle_media_message"} \cup LabelEvents
       \/ chat_state[c] = "add_pkg_level"
          /\ last'.handler \in {"handle_text", "handle_media_message"} \cup LabelEvents

\* C15: in a wizard step, an input that is not of the class the step awaits (a
\* photo or a video in a text step, free text in add_pkg_level, a menu label in
\* a text step) is answered with a re-prompt of that step and leaves the chat's
\* state unchanged.
C15_WrongInputReprompts ==
    [][\A c \in Chats :
          WrongClass(c) =>
              /\ chat_state'[c] = chat_state[c]
              /\ sent' /= <<>>
              /\ \A i \in 1..Len(sent') : sent'[i].to = c /\ sent'[i].kind /= "unknown_text"]_vars

\* the steps that ask for a name, a description, a title or a duration
NameSteps ==
    {"add_pkg_name", "add_pkg_desc", "add_video_title", "add_video_duration",
     "edit_pkg_name", "edit_pkg_desc", "edit_vid_title"}

\* text fails the format check of the step st of chat c: no date and time in
\* add_slot, an empty name, a price that is no integer or negative, a position
\* that is no integer or out of range
FailsFormat(c, st, text) ==
    \/ st = "add_slot" /\ text = Yoga
    \/ st \in NameSteps /\ text = Blank
    \/ st \in {"add_pkg_price", "edit_pkg_price"} /\ text \in {Yoga, MinusOne}
    \/ st = "edit_pkg_position" /\ (text = Yoga \/ (text = Three /\ Len(packages) < 3))
    \/ st = "add_video_position"
       /\ (text = Yoga \/ (text = Three /\ Len(TargetVideos(c)) + 1 < 3))

\* C16: a text that fails the format check of a step is answered with one
\* message to the chat, and the states, the drafts and targets and all the
\* collections (slots, bookings, packages, posts, files) stay as they were.
C16_BadFormatReprompts ==
    [][\A c \in Chats :
          /\ last'.handler = "handle_text" /\ last'.chat = c
          /\ FailsFormat(c, chat_state[c], last'.data)
          => /\ Len(sent') = 1 /\ sent'[1].to = c /\ sent'[1].kind /= "unknown_text"
             /\ UNCHANGED <<chat_state, draftVars, slots, bookings, packages, posts,
                            public_files>>]_vars

\* a negative price has been refused in add_pkg_price with the name, the id,
\* the level and the description in the draft
C16_Witness ==
    /\ last.handler = "handle_text" /\ last.chat = 1 /\ last.data = MinusOne
    /\ chat_state[1] = "add_pkg_price"
    /\ Len(sent) = 1 /\ sent[1].kind = "price_invalid"
    /\ HasDraft(chat_pkg_draft, 1)
    /\ DOMAIN chat_pkg_draft[1] = {"name", "id", "level", "description"}

\* the presses of delpkg_cancel, addvid_cancel, delvid_cancel, editpkg_cancel,
\* cancel_delpost, cancel_editpost and mf_cancel
CancelEvents == {"pkg_cancel", "cancel_delpost", "cancel_editpost", "mf_cancel"}

\* chat c holds no draft
NoDraft(c) ==
    /\ ~HasDraft(chat_pkg_draft, c) /\ ~HasDraft(chat_video_draft, c)
    /\ ~HasDraft(chat_post_files, c) /\ ~HasDraft(chat_edit_post_files, c)
    /\ ~HasDraft(chat_upload_dirs, c) /\ ~HasDraft(chat_rename_targets, c)

\* C17: the press of a cancel button leaves the chat idle and without a draft,
\* so that a later text is not taken as input of the cancelled wizard.
C17_CancelReturnsToIdle ==
    [][\A c \in Chats :
          last'.chat = c /\ last'.handler \in CancelEvents
          => chat_state'[c] = None /\ NoDraft(c)']_vars

\* the step is one of chat c in which the write of the collection or of the
\* post file raises: write_slots in add_slot, write_packages in a step of the
\* packages and videos, the post file in add_post and edit_post
WriteRaises(c) ==
    \/ \E text \in StepTexts(chat_state[c]) : AddSlotWriteFails(c, text)
    \/ \E text \in StepTexts(chat_state[c]) :
          chat_state[c] /= "rename_file" /\ WizardText(c, text, FALSE)
    \/ \E kind \in MediaKinds :
          /\ chat_state[c] \in {"add_pkg_preview", "edit_pkg_preview", "add_video_file"}
          /\ handle_media_message(c, kind, "json")

\* C18: when the write of a wizard step raises, the operator is sent a message
\* and the chat is idle afterwards, not in the step that attempted the write.
C18_FailedWriteLeavesIdle ==
    [][\A c \in Chats :
          WriteRaises(c) =>
              /\ chat_state'[c] = None
              /\ \E i \in 1..Len(sent') : sent'[i].to = c]_vars

----------------------------------------------------------------------------
(* The deploy pipeline: run_site_rebuild in its thread                      *)

\* what a pipeline has done so far, in order: the stages it ran, with their
\* results, and the messages it sent, with their values
Ran(stage, result) == [act |-> "run", name |-> stage, result |-> result, args |-> <<>>]
Told(kind, args) == [act |-> "msg", name |-> kind, result |-> "", args |-> args]

\* the captured output of a command, as _run_cmd returns it
Output(cmd) == "output of " \o cmd

\* how the git commands of the content sync can end
GitOutcomes ==
    {"status_fails", "no_changes", "add_fails", "nothing_to_commit", "commit_fails",
     "push_fails", "pushed"}

sync_bot_content_to_github_AlwaysOk(git) ==
    [ok |-> TRUE, message |-> <<"content pushed", Output("git push")>>]

\* sync_bot_content_to_github: (ok, message), the message as its text and the
\* output of the last command
sync_bot_content_to_github(git) ==
    CASE git = "status_fails" ->
             [ok |-> FALSE, message |-> <<"git status failed", Output("git status")>>]
      [] git = "no_changes" ->
             [ok |-> TRUE, message |-> <<"no content changes", "">>]
      [] git = "add_fails" ->
             [ok |-> FALSE, message |-> <<"git add failed", Output("git add")>>]
      [] git = "nothing_to_commit" ->
             [ok |-> TRUE, message |-> <<"nothing left to commit", "">>]
      [] git = "commit_fails" ->
             [ok |-> FALSE, message |-> <<"git commit failed", Output("git commit")>>]
      [] git = "push_fails" ->
             [ok |-> FALSE, message |-> <<"git push failed", Output("git push")>>]
      [] OTHER ->
             [ok |-> TRUE, message |-> <<"content pushed", Output("git push")>>]

\* the ways a stage can end: the results of the sync, and for build and restart
\* exit code 0, another exit code, subprocess.TimeoutExpired, another exception
\* (the command can not be launched)
SyncEnds == {"status_fails", "no_changes", "commit_fails", "pushed", "timeout", "error"}
CommandEnds == {"ok", "fail", "timeout", "error"}

Abort_AsLaunchError(end) == Told("deploy_error", <<"exception">>)

\* the two except clauses of run_site_rebuild
Abort(end) ==
    IF end = "timeout" THEN Told("deploy_timeout", <<>>)
    ELSE Told("deploy_error", <<"exception">>)

\* run_site_rebuild from the point pc on, up to the call of the next stage:
\* what is added to the log, and where the pipeline is then
rebuild_step(pc, end) ==
    CASE pc = "start" ->
             [log |-> <<Told("deploy_started", <<>>)>>, pc |-> "sync"]
      [] pc = "sync" ->
             IF end \in {"timeout", "error"}
             THEN [log |-> <<Ran("sync", end), Abort(end)>>, pc |-> "done"]
             ELSE LET r == sync_bot_content_to_github(end) IN
                  IF ~r.ok
                  THEN [log |-> <<Ran("sync", end),
                                  Told("deploy_stopped_sync_failed", r.message)>>,
                        pc |-> "done"]
                  ELSE [log |-> <<Ran("sync", end), Told("github_ok", r.message)>>,
                        pc |-> "build"]
      [] pc = "build" ->
             IF end \in {"timeout", "error"}
             THEN [log |-> <<Ran("build", end), Abort(end)>>, pc |-> "done"]
             ELSE IF end = "fail"
             THEN [log |-> <<Ran("build", "fail"),
                             Told("build_failed", <<"exit code", Output("npm run build")>>)>>,
                   pc |-> "done"]
             ELSE [log |-> <<Ran("build", "ok")>>, pc |-> "restart"]
      [] OTHER ->
             IF end \in {"timeout", "error"}
             THEN [log |-> <<Ran("restart", end), Abort(end)>>, pc |-> "done"]
             ELSE IF end = "fail"
             THEN [log |-> <<Ran("restart", "fail"),
                             Told("restart_failed", <<"exit code", Output("pm2 restart")>>)>>,
                   pc |-> "done"]
             ELSE [log |-> <<Ran("restart", "ok"),
                             Told("deploy_succeeded",
                                  <<Output("npm run build"), Output("pm2 restart")>>)>>,
                   pc |-> "done"]

\* the messages among the entries of a log, as sent to chat c
Messages(c, entries) ==
    LET told == SelectSeq(entries, LAMBDA e : e.act = "msg") IN
    [k \in 1..Len(told) |-> Msg(c, told[k].name, told[k].args, <<>>)]

\* the thread of pipeline i runs its next stage, which ends as `end` says
DeployStep(i, end) ==
    LET p == pipelines[i]
        step == rebuild_step(p.pc, end)
    IN  /\ p.pc /= "done"
        /\ end \in (CASE p.pc = "start" -> {"ok"}
                      [] p.pc = "sync" -> SyncEnds
                      [] OTHER -> CommandEnds)
        /\ pipelines' = [pipelines EXCEPT ![i] = [chat |-> p.chat, pc |-> step.pc,
                                                  log |-> p.log \o step.log]]
        /\ sent' = Messages(p.chat, step.log)
        /\ last' = Event("run_site_rebuild", p.chat, <<p.pc>>)
        /\ UNCHANGED <<slotVars, chat_state, today, admin_ids, secret, token_row, issued,
                       now, verified, parseVars, draftVars, contentVars>>

InitDeploy ==
    /\ slots = EmptyDict
    /\ bookings = <<>>
    /\ chat_state = [c \in Chats |-> None]
    /\ today = [y |-> 2026, m |-> 2, d |-> 11]
    /\ sent = <<>>
    /\ last = NoEvent
    /\ admin_ids = {StrOf(1)}
    /\ secret = ""
    /\ token_row = <<>>
    /\ issued = <<>>
    /\ now = 0
    /\ verified = NotVerified
    /\ pipelines = <<>>
    /\ ParseIdle
    /\ DraftsIdle

NextDeploy ==
    \/ \E c \in Chats : cmd_deploy(c)
    \/ \E c \in Chats : DeployButton(c)
    \/ \E i \in 1..Len(pipelines), end \in SyncEnds \cup CommandEnds : DeployStep(i, end)

SpecDeploy == InitDeploy /\ [][NextDeploy]_vars

\* the stages a pipeline has run, in order
Runs(i) == SelectSeq(pipelines[i].log, LAMBDA e : e.act = "run")

Stages == <<"sync", "build", "restart">>

\* a stage that ended like this succeeded, resp. failed (a git command or the
\* command of the stage returned an exit code other than 0)
Succeeded(run) == run.result \in {"no_changes", "nothing_to_commit", "pushed", "ok"}
Failed(run) ==
    run.result \in {"status_fails", "add_fails", "commit_fails", "push_fails", "fail"}

\* the report of a failed stage
FailureReports ==
    [sync |-> "deploy_stopped_sync_failed", build |-> "build_failed",
     restart |-> "restart_failed"]

\* C19: a pipeline runs sync, build and restart in this order, each at most
\* once and each only after the stage before it succeeded; after a stage that
\* failed no stage is run, and the pipeline ends with the report of that stage,
\* which carries the output of the failed command.
C19_StagesInOrderHaltOnFailure ==
    \A i \in 1..Len(pipelines) :
        LET log == pipelines[i].log
            runs == Runs(i)
        IN  /\ Len(runs) <= Len(Stages)
            /\ \A k \in 1..Len(runs) : runs[k].name = Stages[k]
            /\ \A k \in 1..(Len(runs) - 1) : Succeeded(runs[k])
            /\ \A k \in 1..Len(runs) :
                  Failed(runs[k]) =>
                      /\ pipelines[i].pc = "done"
                      /\ log[Len(log) - 1] = runs[k]
                      /\ log[Len(log)].act = "msg"
                      /\ log[Len(log)].name = FailureReports[runs[k].name]
                      /\ \E cmd \in {"git status", "git add", "git commit", "git push",
                                     "npm run build", "pm2 restart"} :
                            log[Len(log)].args[2] = Output(cmd)

\* a pipeline whose sync succeeded and whose build failed has ended
C19_Witness ==
    \E i \in 1..Len(pipelines) :
        /\ Len(Runs(i)) = 2
        /\ Runs(i)[1].result = "pushed"
        /\ Runs(i)[2].result = "fail"
        /\ pipelines[i].pc = "done"

\* C20: in a pipeline, each stage that succeeded (sync, build, restart) is
\* followed by a message to the requesting chat before the next stage starts.
C20_ProgressAfterEachStage ==
    \A i \in 1..Len(pipelines) :
        LET log == pipelines[i].log IN
        \A k \in 1..Len(log) :
            log[k].act = "run" /\ Succeeded(log[k])
            => k < Len(log) /\ log[k + 1].act = "msg"

\* each pipeline runs in a thread of its own (threading.Thread(...).start()),
\* and every command it waits for returns or runs into its timeout: a pipeline
\* that has not ended takes its next step
DeployFairness ==
    \A i \in 1..MaxPipelines :
        WF_vars(\E end \in SyncEnds \cup CommandEnds :
                    i \in 1..Len(pipelines) /\ DeployStep(i, end))

SpecDeployFair == InitDeploy /\ [][NextDeploy]_vars /\ DeployFairness

\* the reports that end a pipeline: success, the failure of a named stage, the
\* timeout, the launch error
TerminalReports ==
    {"deploy_succeeded", "deploy_stopped_sync_failed", "build_failed", "restart_failed",
     "deploy_timeout", "deploy_error"}

IsTerminal(e) == e.act = "msg" /\ e.name \in TerminalReports

\* a pipeline has sent no terminal report while it runs and exactly one, as the
\* last thing it did, when it has ended; a stage that ran into its timeout is
\* followed by the timeout report and by nothing else
OneTerminalReport ==
    \A i \in 1..Len(pipelines) :
        LET log == pipelines[i].log
            terminal == SelectSeq(log, IsTerminal)
        IN  /\ Len(terminal) = (IF pipelines[i].pc = "done" THEN 1 ELSE 0)
            /\ pipelines[i].pc = "done" => IsTerminal(log[Len(log)])
            /\ \A k \in 1..Len(log) :
                  log[k].act = "run" /\ log[k].result = "timeout" =>
                      /\ k = Len(log) - 1
                      /\ log[Len(log)] = Told("deploy_timeout", <<>>)
            /\ \A k \in 1..Len(log) :
                  log[k].act = "run" /\ log[k].result = "error" =>
                      /\ k = Len(log) - 1
                      /\ log[Len(log)].name = "deploy_error"

\* the messages of a pipeline go to the chat that asked for it
ReportsToRequester ==
    [][\A i \in 1..Len(pipelines), end \in SyncEnds \cup CommandEnds :
          DeployStep(i, end) =>
              \A k \in 1..Len(sent') : sent'[k].to = pipelines[i].chat]_vars

Started(i) == i <= Len(pipelines)
Ended(i) == i <= Len(pipelines) /\ pipelines[i].pc = "done"

\* C21: provided every command returns or runs into its timeout, every started
\* pipeline ends, and it sends exactly one terminal report (success, the failure
\* of a named stage, timeout or launch error), to the chat that asked for it; a
\* stage that ran into its timeout gives the timeout report, never a failure
\* report, and no stage is run after it.
C21_EveryRunEndsWithOneReport ==
    /\ []OneTerminalReport
    /\ ReportsToRequester
    /\ \A i \in 1..MaxPipelines :
          Started(i) ~> Ended(i)

\* a pipeline whose build ran into its timeout has ended with the timeout report
C21_Witness ==
    \E i \in 1..Len(pipelines) :
        /\ pipelines[i].pc = "done"
        /\ Len(Runs(i)) = 2
        /\ Runs(i)[2].result = "timeout"
        /\ pipelines[i].log[Len(pipelines[i].log)].name = "deploy_timeout"

----------------------------------------------------------------------------
(* Conversation handlers next to running pipelines                          *)

\* what the chats send while pipelines run: a slot not yet there, and a text
\* that names none
ChatTexts == {WriteDMY(2026, 2, 10) \o Sp \o WriteTime(10, 0) \o Sp \o WriteTime(11, 0),
              <<"h", "i">>}

\* how the stages end in the runs followed here: with success or with an exit
\* code other than 0
ChatEnds == {"pushed", "ok", "fail"}

\* the handlers of the polling loop and the threads of the pipelines, in any
\* order
NextDeployChat ==
    \/ \E c \in Chats : cmd_deploy(c)
    \/ \E c \in Chats : DeployButton(c)
    \/ \E i \in 1..Len(pipelines), end \in ChatEnds : DeployStep(i, end)
    \/ \E c \in Chats : AddSlotButton(c)
    \/ \E c \in Chats, text \in ChatTexts : handle_text(c, text)

SpecDeployChat == InitDeploy /\ [][NextDeployChat]_vars

\* a pipeline has been started and has not ended
Running(i) == i \in 1..Len(pipelines) /\ pipelines[i].pc /= "done"

\* the deploy handlers leave the new pipeline before its first step: no stage
\* has run and no message of it is sent when the handler returns
DeployReturnsAtDispatch ==
    [][\A c \in Chats :
          is_admin_chat(c) /\ (cmd_deploy(c) \/ DeployButton(c)) =>
              /\ Len(pipelines') = Len(pipelines) + 1
              /\ pipelines'[Len(pipelines')].chat = c
              /\ pipelines'[Len(pipelines')].log = <<>>
              /\ pipelines'[Len(pipelines')].pc /= "done"
              /\ sent' = <<>>]_vars

\* a handler run while a pipeline runs does what it does at any other time:
\* the add-slot button opens the wizard of the chat, and a chat in the wizard
\* that names a new slot has the slot written and its wizard ended; the
\* pipelines are not touched
HandledWhileRunning ==
    [][(\E i \in 1..Len(pipelines) : Running(i)) =>
          \A c \in Chats :
              /\ AddSlotButton(c) => chat_state'[c] = "add_slot" /\ pipelines' = pipelines
              /\ \A text \in ChatTexts :
                    LET r == parse_date_range(text, today.y) IN
                    /\ chat_state[c] = "add_slot"
                    /\ handle_text(c, text)
                    /\ r /= None3
                    /\ ~HasSlot(slots, r[1], r[2])
                    => /\ HasSlot(slots', r[1], r[2])
                       /\ chat_state'[c] = None
                       /\ pipelines' = pipelines]_vars

\* C22: the deploy handler returns when it has started the thread of the
\* pipeline, before any stage has run; while a pipeline runs the handlers of
\* every chat, the requesting one included, are still run, move the wizard of
\* the chat on and write the collections.
C22_DeployDoesNotBlockHandlers ==
    /\ DeployReturnsAtDispatch
    /\ HandledWhileRunning

\* the build of the pipeline of chat 1 is under way, and the last thing that
\* happened is that chat 1 named a slot, which was written
C22_Witness ==
    /\ \E i \in 1..Len(pipelines) :
          /\ pipelines[i].chat = 1
          /\ pipelines[i].pc = "build"
    /\ last.handler = "handle_text"
    /\ last.chat = 1
    /\ slots /= EmptyDict
    /\ chat_state[1] = None
    /\ \E k \in 1..Len(sent) : sent[k].kind = "slot_added"

----------------------------------------------------------------------------
(* Functions applied to arguments drawn from bounded sets                   *)

\* fn(args), not yet applied
Call(fn, args) == [fn |-> fn, args |-> args, result |-> <<>>, done |-> FALSE]

\* the videos a package may hold: up to MaxVideos of these, each at most once
SomeVideos == {Video(One, One), Video(Three, One), Video(Yoga, One)}

RECURSIVE VideoListsOf(_)
VideoListsOf(n) ==
    IF n = 0 THEN {<<>>}
    ELSE {Append(l, v) : l \in {x \in VideoListsOf(n - 1) : Len(x) = n - 1},
                         v \in SomeVideos}
         \cup VideoListsOf(n - 1)

VideoLists ==
    {l \in VideoListsOf(MaxVideos) : \A i, j \in 1..Len(l) : i /= j => l[i] /= l[j]}

\* the video that is added
NewVideo == Video(Net, One)

\* draft.get("position") as _save_video_to_package may find it
Positions(videos) == (0 - 1)..(Len(videos) + 3)

InsertCalls ==
    UNION { {Call("insert", <<videos, position>>) : position \in Positions(videos)} :
            videos \in VideoLists }

\* the insertion of _save_video_to_package applied to a list and a position
InsertCall ==
    /\ call.fn = "insert"
    /\ ~call.done
    /\ call' = [call EXCEPT !.done = TRUE,
                            !.result = InsertVideo(call.args[1], call.args[2], NewVideo)]
    /\ UNCHANGED <<slots, bookings, chat_state, today, sent, last, text_in, parsed,
                   locals, damaged, screen, authVars, draftVars, contentVars>>

----------------------------------------------------------------------------
(* The paged lists                                                          *)

PAGE_SIZE_POSTS == 5
PAGE_SIZE_FILES == 10

\* the largest number of pages a list under test has
MaxPages == 3

Min(a, b) == IF a < b THEN a ELSE b

\* send_posts_page(chat_id, page), list_blog_posts() returning items: the
\* message sent, as its kind and the buttons of its keyboard
send_posts_page(items, page) ==
    IF items = <<>> THEN [kind |-> "no_posts", buttons |-> Kb("blog_keyboard")]
    ELSE LET total == Len(items)
             max_page == (total - 1) \div PAGE_SIZE_POSTS
             pg == IF page < 0 THEN 0 ELSE IF page > max_page THEN max_page ELSE page
             start == pg * PAGE_SIZE_POSTS
             end == Min(start + PAGE_SIZE_POSTS, total)
         IN  [kind |-> "choose_post_to_delete",
              buttons |->
                  [i \in 1..(end - start) |-> Button("delpost", <<items[start + i], pg>>)]
                  \o (IF pg > 0 THEN <<Button("delpostpage", pg - 1)>> ELSE <<>>)
                  \o (IF end < total THEN <<Button("delpostpage", pg + 1)>> ELSE <<>>)
                  \o <<Button("cancel_delpost", <<>>)>>]

\* send_edit_posts_page(chat_id, page)
send_edit_posts_page(items, page) ==
    IF items = <<>> THEN [kind |-> "no_posts", buttons |-> Kb("blog_keyboard")]
    ELSE LET total == Len(items)
             max_page == (total - 1) \div PAGE_SIZE_POSTS
             pg == IF page < 0 THEN 0 ELSE IF page > max_page THEN max_page ELSE page
             start == pg * PAGE_SIZE_POSTS
             end == Min(start + PAGE_SIZE_POSTS, total)
         IN  [kind |-> "choose_post_to_edit",
              buttons |->
                  [i \in 1..(end - start) |-> Button("editpost", <<items[start + i], pg>>)]
                  \o (IF pg > 0 THEN <<Button("editpostpage", pg - 1)>> ELSE <<>>)
                  \o (IF end < total THEN <<Button("editpostpage", pg + 1)>> ELSE <<>>)
                  \o <<Button("cancel_editpost", <<>>)>>]

\* send_media_files(chat_id, dir_name, page), list_media_files(dir_name)
\* returning items
send_media_files(items, page) ==
    IF items = <<>> THEN [kind |-> "no_files", buttons |-> Kb("blog_keyboard")]
    ELSE LET total == Len(items)
             max_page == (total - 1) \div PAGE_SIZE_FILES
             pg == IF page < 0 THEN 0 ELSE IF page > max_page THEN max_page ELSE page
             start == pg * PAGE_SIZE_FILES
             end == Min(start + PAGE_SIZE_FILES, total)
         IN  [kind |-> "files_of_dir",
              buttons |->
                  [i \in 1..(end - start) |-> Button("mf_file", <<items[start + i], pg>>)]
                  \o (IF pg > 0 THEN <<Button("mf_page", pg - 1)>> ELSE <<>>)
                  \o (IF end < total THEN <<Button("mf_page", pg + 1)>> ELSE <<>>)
                  \o <<Button("mf_upload", <<>>), Button("mf_back_dirs", <<>>),
                       Button("mf_cancel", <<>>)>>]

send_packages_page_NoUpperClamp(items, page) ==
    IF items = <<>> THEN [kind |-> "no_packages", buttons |-> Kb("yoga_keyboard")]
    ELSE LET total == Len(items)
             pg == IF page < 0 THEN 0 ELSE page
             start == Min(pg * PAGE_SIZE_PKGS, total)
             end == Min(start + PAGE_SIZE_PKGS, total)
         IN  [kind |-> "packages_list",
              buttons |->
                  [i \in 1..(end - start) |-> Button("pkg", <<items[start + i], pg>>)]
                  \o (IF pg > 0 THEN <<Button("pkg_page", pg - 1)>> ELSE <<>>)
                  \o (IF end < total THEN <<Button("pkg_page", pg + 1)>> ELSE <<>>)
                  \o <<Button("pkg_cancel", <<>>)>>]

\* send_packages_list(chat_id, prefix, prompt, page), read_packages() returning
\* items; the prefix of the callback data is written pkg
send_packages_page(items, page) ==
    IF items = <<>> THEN [kind |-> "no_packages", buttons |-> Kb("yoga_keyboard")]
    ELSE LET total == Len(items)
             max_page == (total - 1) \div PAGE_SIZE_PKGS
             pg == IF page < 0 THEN 0 ELSE IF page > max_page THEN max_page ELSE page
             start == pg * PAGE_SIZE_PKGS
             end == Min(start + PAGE_SIZE_PKGS, total)
         IN  [kind |-> "packages_list",
              buttons |->
                  [i \in 1..(end - start) |-> Button("pkg", <<items[start + i], pg>>)]
                  \o (IF pg > 0 THEN <<Button("pkg_page", pg - 1)>> ELSE <<>>)
                  \o (IF end < total THEN <<Button("pkg_page", pg + 1)>> ELSE <<>>)
                  \o <<Button("pkg_cancel", <<>>)>>]

\* the four renderers: page size, tag of an item's button, tag of a page
\* button, kind of the message for an empty list
Renderers ==
    [send_posts_page |-> [size |-> PAGE_SIZE_POSTS, item |-> "delpost",
                          nav |-> "delpostpage", none |-> "no_posts"],
     send_edit_posts_page |-> [size |-> PAGE_SIZE_POSTS, item |-> "editpost",
                               nav |-> "editpostpage", none |-> "no_posts"],
     send_media_files |-> [size |-> PAGE_SIZE_FILES, item |-> "mf_file",
                           nav |-> "mf_page", none |-> "no_files"],
     send_packages_list |-> [size |-> PAGE_SIZE_PKGS, item |-> "pkg",
                             nav |-> "pkg_page", none |-> "no_packages"]]

\* a renderer applied to the list 1..n and a page from -2 up to two past the
\* last one
PageCalls ==
    UNION { {Call(fn, <<n, page>>) :
                n \in 0..(MaxPages * Renderers[fn].size),
                page \in (0 - 2)..(MaxPages + 2)} :
            fn \in DOMAIN Renderers }

Items(n) == [i \in 1..n |-> i]

PageCall ==
    /\ call.fn \in DOMAIN Renderers
    /\ ~call.done
    /\ LET items == Items(call.args[1])
           page == call.args[2]
       IN  call' = [call EXCEPT
                       !.done = TRUE,
                       !.result = CASE call.fn = "send_posts_page" ->
                                           send_posts_page(items, page)
                                    [] call.fn = "send_edit_posts_page" ->
                                           send_edit_posts_page(items, page)
                                    [] call.fn = "send_media_files" ->
                                           send_media_files(items, page)
                                    [] OTHER -> send_packages_page(items, page)]
    /\ UNCHANGED <<slots, bookings, chat_state, today, sent, last, text_in, parsed,
                   locals, damaged, screen, authVars, draftVars, contentVars>>

InitCalls ==
    /\ call \in InsertCalls \/ call \in PageCalls
    /\ text_in = NoCase
    /\ parsed = NotParsed
    /\ locals = NoLocals
    /\ damaged = {}
    /\ screen = [c \in Chats |-> {}]
    /\ today = [y |-> 2026, m |-> 2, d |-> 11]
    /\ slots = EmptyDict
    /\ bookings = <<>>
    /\ chat_state = [c \in Chats |-> None]
    /\ sent = <<>>
    /\ last = NoEvent
    /\ AuthIdle
    /\ DraftsIdle

NextCalls ==
    \/ InsertCall
    \/ PageCall

SpecCalls == InitCalls /\ [][NextCalls]_vars

\* list l without its element at index k (1-based)
Without(l, k) == Slice(l, 1, k - 1) \o Slice(l, k + 1, Len(l))

\* the nearest position of 1..len+1
Clamped(position, len) ==
    IF position < 1 THEN 1 ELSE IF position > len + 1 THEN len + 1 ELSE position

----------------------------------------------------------------------------
(* The order of the videos of a package                                     *)

\* videos[i], videos[j] = videos[j], videos[i] (1-based here)
Swap(videos, i, j) ==
    [k \in 1..Len(videos) |-> IF k = i THEN videos[j] ELSE IF k = j THEN videos[i]
                              ELSE videos[k]]

\* _send_edit_video_list(chat_id, pkg_id), reading the packages pkgs
send_edit_video_list(c, pkgs, pkg_id) ==
    LET k == FindPkg(pkgs, pkg_id) IN
    IF k = 0 THEN Msg(c, "package_not_found", <<>>, Kb("yoga_keyboard"))
    ELSE IF pkgs[k].videos = <<>>
    THEN Msg(c, "no_videos_left", <<>>, Kb("yoga_keyboard"))
    ELSE Msg(c, "edit_video_list",
             [i \in 1..Len(pkgs[k].videos) |-> DictGet(pkgs[k].videos[i], "title")],
             [i \in 1..Len(pkgs[k].videos) |-> Button("evid_sel", <<pkg_id, i - 1>>)]
                 \o <<Button("epkg_back", pkg_id)>>)

\* the move without the tests of the first and the last index: videos[-1] is
\* the last video
MoveVideo_Wraps(c, pkg_id, idx, step) ==
    LET k == FindPkg(packages, pkg_id)
        len == IF k = 0 THEN 0 ELSE Len(packages[k].videos)
        moved == [packages EXCEPT
                     ![k].videos = Swap(@, idx + 1, ((idx + step + len) % len) + 1)]
    IN  IF k = 0 \/ idx < 0 \/ idx >= len
        THEN /\ sent' = <<Answer(c, "cannot_move")>>
             /\ UNCHANGED packages
        ELSE /\ packages' = moved
             /\ sent' = <<Answer(c, "moved"), send_edit_video_list(c, moved, pkg_id)>>

\* handle_edit_video_up and handle_edit_video_down: evid_up:<pkg_id>|<idx> and
\* evid_down:<pkg_id>|<idx>, idx 0-based; step is -1 for up and 1 for down
MoveVideo(c, pkg_id, idx, step) ==
    LET k == FindPkg(packages, pkg_id)
        len == IF k = 0 THEN 0 ELSE Len(packages[k].videos)
        refused == IF step < 0 THEN k = 0 \/ idx <= 0 \/ idx >= len
                   ELSE k = 0 \/ idx < 0 \/ idx >= len - 1
        moved == [packages EXCEPT ![k].videos = Swap(@, idx + 1, idx + 1 + step)]
    IN  IF refused
        THEN /\ sent' = <<Answer(c, "cannot_move")>>
             /\ UNCHANGED packages
        ELSE /\ packages' = moved
             /\ sent' = <<Answer(c, "moved"), send_edit_video_list(c, moved, pkg_id)>>

handle_edit_video_up(c, pkg_id, idx) ==
    /\ MoveVideo(c, pkg_id, idx, 0 - 1)
    /\ last' = Event("evid_up", c, <<pkg_id, idx>>)
    /\ UNCHANGED <<slotVars, chat_state, today, authVars, parseVars, draftVars, posts,
                   public_files, scenario>>

handle_edit_video_down(c, pkg_id, idx) ==
    /\ MoveVideo(c, pkg_id, idx, 1)
    /\ last' = Event("evid_down", c, <<pkg_id, idx>>)
    /\ UNCHANGED <<slotVars, chat_state, today, authVars, parseVars, draftVars, posts,
                   public_files, scenario>>

\* packages.json when the bot starts: the package with up to MaxVideos + 1 videos
OrderedPackages ==
    { <<[Package(YogaId, Yoga, <<"A", "l", "l">>, <<"d">>, 0, <<>>) EXCEPT !.videos = l]>> :
        l \in {x \in VideoListsOf(MaxVideos + 1) :
                  \A i, j \in 1..Len(x) : i /= j => x[i] /= x[j]} }

\* the indexes a move button may carry: the buttons of an older list stay in
\* the chat
ButtonIndexes == (0 - 1)..(MaxVideos + 1)

InitOrder ==
    /\ packages \in OrderedPackages
    /\ posts = EmptyDict
    /\ public_files = {}
    /\ scenario = "none"
    /\ slots = EmptyDict
    /\ bookings = <<>>
    /\ chat_state = [c \in Chats |-> None]
    /\ today = [y |-> 2026, m |-> 2, d |-> 11]
    /\ sent = <<>>
    /\ last = NoEvent
    /\ AuthIdle
    /\ ParseIdle
    /\ chat_pkg_draft = EmptyDict
    /\ chat_pkg_target = EmptyDict
    /\ chat_video_draft = EmptyDict
    /\ chat_edit_vid_idx = EmptyDict
    /\ chat_post_files = EmptyDict
    /\ chat_edit_post_files = EmptyDict
    /\ chat_upload_dirs = EmptyDict
    /\ chat_rename_targets = EmptyDict

NextOrder ==
    \/ \E c \in Operators, pkg_id \in ButtonPkgIds, idx \in ButtonIndexes :
          handle_edit_video_up(c, pkg_id, idx)
    \/ \E c \in Operators, pkg_id \in ButtonPkgIds, idx \in ButtonIndexes :
          handle_edit_video_down(c, pkg_id, idx)

SpecOrder == InitOrder /\ [][NextOrder]_vars

\* the videos of the package pkg_id, none when there is no such package
VideosOf(pkgs, pkg_id) ==
    IF FindPkg(pkgs, pkg_id) = 0 THEN <<>> ELSE pkgs[FindPkg(pkgs, pkg_id)].videos

\* C24: moving a video up at index 0, down at the last index, or with an index
\* out of range changes nothing and signals failure: packages is not written
\* and nothing wraps around. For any other index the video changes places with
\* its neighbour and every other video stays where it is.
C24_MoveSwapsNeighboursOrRefuses ==
    [][last'.handler \in {"evid_up", "evid_down"} =>
          LET idx == last'.data[2]
              before == VideosOf(packages, last'.data[1])
              after == VideosOf(packages', last'.data[1])
              to == IF last'.handler = "evid_up" THEN idx - 1 ELSE idx + 1
          IN  IF idx \in 0..(Len(before) - 1) /\ to \in 0..(Len(before) - 1)
              THEN /\ Len(after) = Len(before)
                   /\ after[idx + 1] = before[to + 1]
                   /\ after[to + 1] = before[idx + 1]
                   /\ \A k \in 1..Len(before) :
                         k \notin {idx + 1, to + 1} => after[k] = before[k]
                   /\ sent'[1] /= Answer(last'.chat, "cannot_move")
              ELSE /\ packages' = packages
                   /\ sent' = <<Answer(last'.chat, "cannot_move")>>]_vars

\* the middle video of three was moved down: it is now last, the first one is
\* where it was
C24_Witness ==
    /\ last.handler = "evid_down"
    /\ last.data = <<YogaId, 1>>
    /\ Len(packages[1].videos) = 3
    /\ packages[1].videos[1] = Video(One, One)
    /\ packages[1].videos[3] = Video(Three, One)
    /\ Len(sent) = 2

\* ceil(n / size)
PagesOf(n, size) == CHOOSE k \in 0..n : k * size >= n /\ (k - 1) * size < n

\* what a message shows: the items of its item buttons, the pages of its page
\* buttons
ShownItems(msg, r) ==
    LET bs == SelectSeq(msg.buttons, LAMBDA b : b.tag = r.item) IN
    [i \in 1..Len(bs) |-> bs[i].data[1]]
PageOf(msg, r) ==
    LET bs == SelectSeq(msg.buttons, LAMBDA b : b.tag = r.item) IN bs[1].data[2]
NavPages(msg, r) ==
    LET bs == SelectSeq(msg.buttons, LAMBDA b : b.tag = r.nav) IN
    [i \in 1..Len(bs) |-> bs[i].data]

\* C25: with n >= 1 items and page size P each of the four renderers clamps the
\* requested page into 0..ceil(n/P)-1 and shows the items page*P up to
\* min(page*P+P, n), so that the last page holds n mod P items (P when n is a
\* multiple of P); it offers the previous page exactly when page > 0 and the
\* next one exactly when the page is not the last; the window depends on
\* (n, P, page) only, and n = 0 gives the message of the empty list.
C25_PageWindow ==
    call.fn \in DOMAIN Renderers /\ call.done =>
        LET r == Renderers[call.fn]
            n == call.args[1]
            P == r.size
            msg == call.result
            pages == PagesOf(n, P)
            page == IF call.args[2] < 0 THEN 0
                    ELSE IF call.args[2] > pages - 1 THEN pages - 1 ELSE call.args[2]
        IN  IF n = 0
            THEN msg.kind = r.none /\ ShownItems(msg, r) = <<>> /\ NavPages(msg, r) = <<>>
            ELSE /\ msg.kind /= r.none
                 /\ ShownItems(msg, r) =
                        [i \in 1..(Min(page * P + P, n) - page * P) |-> page * P + i]
                 /\ PageOf(msg, r) = page
                 /\ page = pages - 1 =>
                        Len(ShownItems(msg, r)) = (IF n % P = 0 THEN P ELSE n % P)
                 /\ NavPages(msg, r) =
                        (IF page > 0 THEN <<page - 1>> ELSE <<>>)
                        \o (IF page < pages - 1 THEN <<page + 1>> ELSE <<>>)

\* the media files were asked for page 5 of a list of 21 files: the third and
\* last page is shown, with one file
C25_Witness ==
    /\ call.fn = "send_media_files"
    /\ call.done
    /\ call.args = <<2 * PAGE_SIZE_FILES + 1, 5>>
    /\ ShownItems(call.result, Renderers[call.fn]) = <<2 * PAGE_SIZE_FILES + 1>>
    /\ NavPages(call.result, Renderers[call.fn]) = <<1>>

----------------------------------------------------------------------------
(* The ids of the packages                                                  *)

\* the files of a package under public/: its preview when the image is under
\* /notgallery/, its videos when their videoUrl is under /videos/
FilesOfPackage(pkg) ==
    (IF StartsWith(pkg.image, NotGallery)
     THEN {<< <<"n", "o", "t", "g", "a", "l", "l", "e", "r", "y">>,
              Slice(pkg.image, Len(NotGallery) + 1, Len(pkg.image)) >>}
     ELSE {})
    \cup { << <<"v", "i", "d", "e", "o", "s">>,
              Slice(pkg.videos[i].videoUrl, Len(VideosDir) + 1, Len(pkg.videos[i].videoUrl)) >> :
           i \in {j \in 1..Len(pkg.videos) :
                     /\ "videoUrl" \in DOMAIN pkg.videos[j]
                     /\ StartsWith(pkg.videos[j].videoUrl, VideosDir)} }

\* the deletion as it would be behind ensure_admin
handle_confirm_delete_package_AdminOnly(c, pkg_id) ==
    LET k == FindPkg(packages, pkg_id) IN
    /\ last' = Event("confirm_delpkg", c, pkg_id)
    /\ IF ~is_admin_chat(c)
       THEN /\ sent' = <<Denial(c)>>
            /\ UNCHANGED <<packages, public_files>>
       ELSE IF k = 0
       THEN /\ sent' = <<Answer(c, "package_already_deleted"),
                         Msg(c, "package_gone", <<>>, Kb("yoga_keyboard"))>>
            /\ UNCHANGED <<packages, public_files>>
       ELSE /\ public_files' = public_files \ FilesOfPackage(packages[k])
            /\ packages' = SelectSeq(packages, LAMBDA p : p.id /= pkg_id)
            /\ sent' = <<Answer(c, "package_deleted"),
                         Msg(c, "package_deleted", <<packages[k].name>>, Kb("yoga_keyboard"))>>
    /\ UNCHANGED <<slotVars, chat_state, today, authVars, parseVars, draftVars, posts,
                   scenario>>

\* handle_confirm_delete_package: confirm_delpkg:<pkg_id>
handle_confirm_delete_package(c, pkg_id) ==
    LET k == FindPkg(packages, pkg_id) IN
    /\ last' = Event("confirm_delpkg", c, pkg_id)
    /\ IF k = 0
       THEN /\ sent' = <<Answer(c, "package_already_deleted"),
                         Msg(c, "package_gone", <<>>, Kb("yoga_keyboard"))>>
            /\ UNCHANGED <<packages, public_files>>
       ELSE /\ public_files' = public_files \ FilesOfPackage(packages[k])
            /\ packages' = SelectSeq(packages, LAMBDA p : p.id /= pkg_id)
            /\ sent' = <<Answer(c, "package_deleted"),
                         Msg(c, "package_deleted", <<packages[k].name>>, Kb("yoga_keyboard"))>>
    /\ UNCHANGED <<slotVars, chat_state, today, authVars, parseVars, draftVars, posts,
                   scenario>>

\* the seconds of the clock that pass while the packages are edited
MaxClock == 1

\* the id of the second package called Yoga
YogaId2 == YogaId \o <<"-">> \o Stamp(0)

InitPackages ==
    /\ packages \in PackageFiles
    /\ posts = EmptyDict
    /\ public_files = {}
    /\ scenario = "none"
    /\ slots = EmptyDict
    /\ bookings = <<>>
    /\ chat_state = [c \in Chats |-> None]
    /\ today = [y |-> 2026, m |-> 2, d |-> 11]
    /\ sent = <<>>
    /\ last = NoEvent
    /\ AuthIdle
    /\ ParseIdle
    /\ chat_pkg_draft = EmptyDict
    /\ chat_pkg_target = EmptyDict
    /\ chat_video_draft = EmptyDict
    /\ chat_edit_vid_idx = EmptyDict
    /\ chat_post_files = EmptyDict
    /\ chat_edit_post_files = EmptyDict
    /\ chat_upload_dirs = EmptyDict
    /\ chat_rename_targets = EmptyDict

\* the Add Package wizard from its label to its last step, the change of a
\* package's name, the deletion of a package, and the clock
NextPackages ==
    \/ \E c \in Operators : LabelButton(c, "add_package")
    \/ \E c \in Operators : handle_package_level_select(c, <<"A", "l", "l">>)
    \/ \E c \in Operators : \E text \in StepTexts(chat_state[c]) :
          /\ WizardText(c, text, TRUE)
          /\ Len(packages') <= MaxPackages + 1
    \/ \E c \in Operators : EditPkgCallback(c, "name", YogaId)
    \/ \E c \in Operators, pkg_id \in {YogaId, YogaId2} :
          handle_confirm_delete_package(c, pkg_id)
    \/ Tick /\ now' <= MaxClock

SpecPackages == InitPackages /\ [][NextPackages]_vars

\* C26: the ids of the packages are pairwise distinct after any sequence of
\* completed Add Package wizards (also for names that give the same id and
\* for ids that carry a suffix already), deletions and edits of packages.
C26_PackageIdsUnique ==
    \A i, j \in 1..Len(packages) : i /= j => packages[i].id /= packages[j].id

----------------------------------------------------------------------------
(* The Add Video wizard                                                     *)

\* packages.json when the bot starts: the package with up to MaxVideos videos
WizardPackages ==
    { <<[Package(YogaId, Yoga, <<"A", "l", "l">>, <<"d">>, 0, <<>>) EXCEPT !.videos = l]>> :
        l \in VideoLists }

InitVideoWizard ==
    /\ packages \in WizardPackages
    /\ posts = EmptyDict
    /\ public_files = {}
    /\ scenario = "none"
    /\ slots = EmptyDict
    /\ bookings = <<>>
    /\ chat_state = [c \in Chats |-> None]
    /\ today = [y |-> 2026, m |-> 2, d |-> 11]
    /\ sent = <<>>
    /\ last = NoEvent
    /\ AuthIdle
    /\ ParseIdle
    /\ chat_pkg_draft = EmptyDict
    /\ chat_pkg_target = EmptyDict
    /\ chat_video_draft = EmptyDict
    /\ chat_edit_vid_idx = EmptyDict
    /\ chat_post_files = EmptyDict
    /\ chat_edit_post_files = EmptyDict
    /\ chat_upload_dirs = EmptyDict
    /\ chat_rename_targets = EmptyDict

\* both chats go through the wizard, each at its own pace
NextVideoWizard ==
    \/ \E c \in Chats : handle_add_video_select_package(c, YogaId)
    \/ \E c \in Chats : \E text \in StepTexts(chat_state[c]) :
          /\ WizardText(c, text, TRUE)
          /\ \A k \in 1..Len(packages') : Len(packages'[k].videos) <= MaxVideos + 1
    \/ \E c \in Chats :
          /\ chat_state[c] = "add_video_file"
          /\ handle_media_message(c, "video", "none")
          /\ \A k \in 1..Len(packages') : Len(packages'[k].videos) <= MaxVideos + 1

SpecVideoWizard == InitVideoWizard /\ [][NextVideoWizard]_vars

\* the last step was chat c's text or media handler, taken in state st
StepIn(c, st) ==
    /\ last'.handler \in {"handle_text", "handle_media_message"}
    /\ last'.chat = c
    /\ chat_state[c] = st

\* C27: in the Add Video wizard an accepted duration leads, when the target
\* package has no videos, straight to state add_video_file with position 1 in
\* the draft, and the video is then inserted at index 0; when the package has
\* one or more videos it leads to state add_video_position.
C27_EmptyPackageSkipsPosition ==
    [][\A c \in Chats :
          /\ StepIn(c, "add_video_duration") /\ Strip(last'.data) /= <<>> =>
                IF TargetVideos(c) = <<>>
                THEN /\ chat_state'[c] = "add_video_file"
                     /\ chat_video_draft'[c]["position"] = 1
                ELSE chat_state'[c] = "add_video_position"
          /\ StepIn(c, "add_video_file") /\ packages' /= packages
             /\ chat_video_draft[c]["position"] = 1 =>
                /\ Tail(packages'[1].videos) = packages[1].videos
                /\ packages'[1].videos[1]["title"] = chat_video_draft[c]["title"]]_vars

\* chat 1 has just given the duration while the package is empty: it is asked
\* for the file, with position 1 in its draft
C27_Witness ==
    /\ last.handler = "handle_text"
    /\ last.chat = 1
    /\ chat_state[1] = "add_video_file"
    /\ packages[1].videos = <<>>
    /\ chat_video_draft[1]["position"] = 1
    /\ sent[1].kind = "prompt_add_video_file"

----------------------------------------------------------------------------
(* Renaming a file                                                          *)

PhotoFileB == << <<"p", "h", "o", "t", "o", "s">>, <<"b", ".", "j", "p", "g">> >>

\* what is typed as the new name: a name without extension, names with one,
\* a name with a path separator, nothing but a space
RenameTexts ==
    { <<"b">>, <<"c", ".", "p", "n", "g">>, <<"b", ".", "j", "p", "g">>,
      <<"d", "/", "e">>, Blank }

InitRename ==
    /\ public_files \in {{PhotoFile}, {PhotoFile, PhotoFileB}}
    /\ packages = <<>>
    /\ posts = EmptyDict
    /\ scenario = "none"
    /\ slots = EmptyDict
    /\ bookings = <<>>
    /\ chat_state = [c \in Chats |-> None]
    /\ today = [y |-> 2026, m |-> 2, d |-> 11]
    /\ sent = <<>>
    /\ last = NoEvent
    /\ AuthIdle
    /\ ParseIdle
    /\ chat_pkg_draft = EmptyDict
    /\ chat_pkg_target = EmptyDict
    /\ chat_video_draft = EmptyDict
    /\ chat_edit_vid_idx = EmptyDict
    /\ chat_post_files = EmptyDict
    /\ chat_edit_post_files = EmptyDict
    /\ chat_upload_dirs = EmptyDict
    /\ chat_rename_targets = EmptyDict

\* both chats pick a file to rename and type its new name; Path.rename can raise
NextRename ==
    \/ \E c \in Chats, file \in {PhotoFile, PhotoFileB} :
          handle_media_rename_file_start(c, file)
    \/ \E c \in Chats, text \in RenameTexts, ok \in BOOLEAN :
          chat_state[c] = "rename_file" /\ WizardText(c, text, ok)

SpecRename == InitRename /\ [][NextRename]_vars

\* the extension of a file name: from its last dot on, unless that dot is the
\* first or the last character
Extension(name) ==
    LET p == IF \E i \in 1..Len(name) : name[i] = "."
             THEN CHOOSE i \in 1..Len(name) :
                     name[i] = "." /\ \A j \in (i + 1)..Len(name) : name[j] /= "."
             ELSE 0
    IN  IF p > 1 /\ p < Len(name) THEN SubSeq(name, p, Len(name)) ELSE <<>>

\* the name a typed name stands for, the file renamed being called old_name
Completed(typed, old_name) ==
    IF Extension(typed) = <<>> THEN typed \o Extension(old_name) ELSE typed

HasSeparator(typed) == \E i \in 1..Len(typed) : typed[i] \in {"/", "\\"}

\* chat c, in state rename_file, has sent a name that is not blank
Renaming(c) ==
    /\ last'.handler = "handle_text"
    /\ last'.chat = c
    /\ chat_state[c] = "rename_file"
    /\ Strip(last'.data) /= <<>>

\* a file that is renamed gets the typed name, with the extension of the old
\* name when the typed one has none
RenamedAsTyped(c) ==
    LET dir_name == chat_rename_targets[c][1]
        old_name == chat_rename_targets[c][2]
        new_name == Completed(Strip(last'.data), old_name)
    IN  public_files' /= public_files =>
            public_files' = (public_files \ {<<dir_name, old_name>>})
                                \cup {<<dir_name, new_name>>}

\* the typed name has a path separator or names a file of the directory
Refusable(c) ==
    \/ HasSeparator(Strip(last'.data))
    \/ <<chat_rename_targets[c][1],
         Completed(Strip(last'.data), chat_rename_targets[c][2])>> \in public_files

Refused(c) == public_files' = public_files /\ chat_state'[c] = "rename_file"

\* C28: in state rename_file a new name without extension gets the extension
\* of the original file; a new name with a path separator, or one that names a
\* file that exists in the directory, is refused: no file is renamed or
\* overwritten and the chat stays in rename_file.
C28_RenameKeepsExtensionOrRefuses ==
    [][\A c \in Chats :
          Renaming(c) => /\ RenamedAsTyped(c)
                         /\ Refusable(c) => Refused(c)]_vars

\* C28 as amended: the refusal of a name that exists leaves the chat in
\* rename_file when the file to rename still exists; when it is gone (another
\* chat renamed it) nothing is renamed either and the chat is idle again.
C28_RenameRefusesWhileSourceExists ==
    [][\A c \in Chats :
          Renaming(c) =>
              /\ RenamedAsTyped(c)
              /\ Refusable(c) =>
                    /\ public_files' = public_files
                    /\ IF HasSeparator(Strip(last'.data))
                          \/ <<chat_rename_targets[c][1], chat_rename_targets[c][2]>>
                                \in public_files
                       THEN chat_state'[c] = "rename_file"
                       ELSE chat_state'[c] = None]_vars

\* chat 1 has renamed a.jpg by typing b, and the file is now b.jpg
C28_Witness ==
    /\ last.handler = "handle_text"
    /\ last.chat = 1
    /\ last.data = <<"b">>
    /\ public_files = {PhotoFileB}
    /\ chat_state[1] = None
    /\ \E k \in 1..Len(sent) : sent[k].kind = "file_renamed"

----------------------------------------------------------------------------
(* Cancelling bookings                                                      *)

\* bookings the site may have stored, on two dates
StoredBookings ==
    BookingPool \cup {Booking(WriteIso(2026, 2, 12), WriteTime(10, 0), "Vera", "+7922")}

InitBookings ==
    /\ slots \in SlotFiles
    /\ bookings \in UNION { { l \in [1..n -> StoredBookings] :
                                \A i, j \in 1..n : i /= j => l[i] /= l[j] } :
                            n \in 0..(MaxBookings + 1) }
    /\ chat_state = [c \in Chats |-> None]
    /\ today = [y |-> 2026, m |-> 2, d |-> 9]
    /\ sent = <<>>
    /\ last = NoEvent
    /\ AuthIdle
    /\ ParseIdle
    /\ DraftsIdle

\* the handlers of "Отменить запись" and of the buttons it leads to
NextBookings ==
    \/ \E c \in Operators : CancelBookingButton(c)
    \/ \E c \in Operators, d \in ButtonDates : handle_cancel_date_callback(c, d)
    \/ \E c \in Operators, p \in Payloads : handle_cancel_time_callback(c, p)
    \/ \E c \in Operators, p \in Payloads : handle_confirm_cancel_booking_callback(c, p)
    \/ \E c \in Operators : handle_cancel_cancel_booking_callback(c)

SpecBookings == InitBookings /\ [][NextBookings]_vars

\* the indexes of the bookings of bs that are not for (d, t)
OtherIndexes(bs, d, t) == {i \in 1..Len(bs) : ~(bs[i].date = d /\ bs[i].time = t)}

\* C29: confirming the cancellation for (date, time) removes from bookings
\* every booking with that date and time and no other one: the bookings for
\* other (date, time) pairs keep their content and their order, and slots is
\* unchanged.
C29_CancelRemovesExactlyThePair ==
    [][last'.handler = "confirm_cancel_booking" /\ IsPayload(last'.data) =>
          LET d == PayloadDate(last'.data)
              t == PayloadTime(last'.data)
              others == OtherIndexes(bookings, d, t)
          IN  /\ OtherIndexes(bookings', d, t) = 1..Len(bookings')
              /\ Len(bookings') = Cardinality(others)
              /\ \E f \in [1..Len(bookings') -> others] :
                    /\ \A i, j \in 1..Len(bookings') : i < j => f[i] < f[j]
                    /\ \A i \in 1..Len(bookings') : bookings'[i] = bookings[f[i]]
              /\ slots' = slots]_vars

\* the booking of 10 February 10:00 between two others was cancelled: the two
\* others are left, in their order
C29_Witness ==
    /\ last.handler = "confirm_cancel_booking"
    /\ last.data = Payload(WriteIso(2026, 2, 10), WriteTime(10, 0))
    /\ bookings = <<Booking(WriteIso(2026, 2, 12), WriteTime(10, 0), "Vera", "+7922"),
                    Booking(WriteIso(2026, 2, 10), WriteTime(9, 0), "Olga", "+7911")>>
    /\ \E k \in 1..Len(sent) : sent[k].kind = "bookings_cancelled"

----------------------------------------------------------------------------
(* Handlers of two chats interleaved                                        *)

\* the handlers run on the worker threads of the bot and take no lock: between
\* read_slots() and write_slots() of one handler the other handler may run

\* two times of one date, a time of another date, and a text that names none
RaceTexts == {WriteDMY(2026, 2, 10) \o Sp \o WriteTime(10, 0) \o Sp \o WriteTime(11, 0),
              WriteDMY(2026, 2, 10) \o Sp \o WriteTime(12, 0) \o Sp \o WriteTime(13, 0),
              WriteDMY(2026, 2, 12) \o Sp \o WriteTime(10, 0) \o Sp \o WriteTime(11, 0),
              <<"h", "i">>}

\* the local variables of handle_add_slot after slots = read_slots()
AddSlotLocals(r, sl) ==
    [pc |-> "read", slots |-> sl, date_str |-> r[1], time_start |-> r[2],
     time_end |-> r[3]]

\* the local variables handle_add_slot returned with after write_slots(slots)
Returned(l) == [l EXCEPT !.pc = "returned"]

\* handle_add_slot up to slots = read_slots() and the test of the time read:
\* the handler returns here on a text it can not parse and on a time the file
\* it read already holds
AddSlotRead(c, text) ==
    /\ chat_state[c] = "add_slot"
    /\ locals[c].pc /= "read"
    /\ LET r == parse_date_range(text, today.y) IN
       IF r = None3
       THEN /\ sent' = <<Msg(c, "add_slot_format", <<>>, <<>>)>>
            /\ locals' = [locals EXCEPT ![c] = [pc |-> "idle"]]
       ELSE IF AlreadyPresent(r[2], DictGet(slots, r[1]))
       THEN /\ sent' = <<Msg(c, "slot_already_present",
                             <<format_date_ru(r[1]), Str(r[2])>>, <<>>)>>
            /\ locals' = [locals EXCEPT ![c] = [pc |-> "idle"]]
       ELSE /\ sent' = <<>>
            /\ locals' = [locals EXCEPT ![c] = AddSlotLocals(r, slots)]
    /\ last' = Event("handle_add_slot_read", c, text)
    /\ UNCHANGED <<slots, bookings, chat_state, today, text_in, parsed, call, damaged,
                   screen,
                   authVars, draftVars, contentVars>>

WrittenSlots_Merged(l) ==
    DictSet(slots, l.date_str, AddTime(DictGet(slots, l.date_str), l.time_start))

\* day_slots.append(time_start); day_slots = sorted(set(day_slots));
\* slots[date_str] = day_slots: the dict handed to write_slots, made from the
\* dict the handler read
WrittenSlots(l) ==
    DictSet(l.slots, l.date_str, AddTime(DictGet(l.slots, l.date_str), l.time_start))

\* handle_add_slot from write_slots(slots) to its end
AddSlotWrite(c) ==
    /\ locals[c].pc = "read"
    /\ slots' = WrittenSlots(locals[c])
    /\ sent' = <<Msg(c, "slot_added",
                     <<format_date_ru(locals[c].date_str), Str(locals[c].time_start),
                       Str(locals[c].time_end)>>, MainKeyboard)>>
    /\ chat_state' = SetState(c, None)
    /\ locals' = [locals EXCEPT ![c] = Returned(@)]
    /\ last' = Event("handle_add_slot_write", c, <<>>)
    /\ UNCHANGED <<bookings, today, text_in, parsed, call, damaged, screen, authVars,
                   draftVars,
                   contentVars>>

InitRace ==
    /\ slots \in SlotFiles
    /\ bookings = <<>>
    /\ chat_state = [c \in Chats |-> None]
    /\ today = [y |-> 2026, m |-> 2, d |-> 9]
    /\ sent = <<>>
    /\ last = NoEvent
    /\ AuthIdle
    /\ ParseIdle
    /\ DraftsIdle

\* "Добавить слот" and the text that follows it, from either chat, the two
\* halves of a handler in any order with the halves of the other
NextRace ==
    \/ \E c \in Chats : AddSlotButton(c)
    \/ \E c \in Chats, text \in RaceTexts : AddSlotRead(c, text)
    \/ \E c \in Chats : AddSlotWrite(c)

SpecRace == InitRace /\ [][NextRace]_vars

\* time t is among the times dict sl holds for date d
Holds(sl, d, t) == InList(t, DictGet(sl, d))

\* the (date, time) pairs of a dict
PairsOf(sl) == UNION { { <<d, sl[d][i]>> : i \in 1..Len(sl[d]) } : d \in DOMAIN sl }

\* C30: handlers that read the whole slots file, change it in memory and write
\* it back may run interleaved, and then an update is lost without an error:
\* the write of a handler leaves in the file the times the handler read and
\* its own time and nothing else, so a time another handler wrote between the
\* read and the write is gone, and the step sends one message, the success
\* message, to the handler's own chat
C30_WriteBackLosesInterleavedUpdate ==
    [][last'.handler = "handle_add_slot_write" =>
        LET c == last'.chat
            l == locals[c]
        IN  /\ l.pc = "read"
            /\ PairsOf(slots') = PairsOf(l.slots) \cup {<<l.date_str, l.time_start>>}
            /\ \A p \in PairsOf(slots) \ PairsOf(l.slots) :
                   p /= <<l.date_str, l.time_start>> => p \notin PairsOf(slots')
            /\ Len(sent') = 1
            /\ sent'[1].to = c
            /\ sent'[1].kind = "slot_added"
            /\ chat_state'[c] = None]_vars

\* the handlers of both chats returned after "slot added" for two different
\* times of one date, and the file holds only one of the two times
C30_Witness ==
    /\ \A c \in Chats : locals[c].pc = "returned"
    /\ locals[1].date_str = locals[2].date_str
    /\ locals[1].time_start /= locals[2].time_start
    /\ \E c \in Chats :
          /\ Holds(slots, locals[c].date_str, locals[c].time_start)
          /\ \A x \in Chats \ {c} : ~Holds(slots, locals[x].date_str, locals[x].time_start)
    /\ \A c \in Chats : chat_state[c] = None
    /\ Len(sent) = 1
    /\ sent[1].kind = "slot_added"

----------------------------------------------------------------------------
(* Deploy requests while a pipeline runs                                    *)

\* the stages of run_site_rebuild a pipeline can be in
InStage(i) == i \in 1..Len(pipelines) /\ pipelines[i].pc \in {"sync", "build", "restart"}

\* C31: a deploy request (/deploy, /rebuild or the button) of an allowed chat
\* that arrives while a pipeline is running is neither rejected nor queued:
\* the handler sends no refusal, leaves the running pipelines as they are and
\* starts one more pipeline at once, so two pipelines can be in their
\* sync/build/restart stages at the same time
C31_SecondDeployStartsSecondPipeline ==
    [][\A c \in Chats :
          /\ is_admin_chat(c)
          /\ cmd_deploy(c) \/ DeployButton(c)
          /\ \E i \in 1..Len(pipelines) : Running(i)
          => /\ Len(pipelines') = Len(pipelines) + 1
             /\ \A i \in 1..Len(pipelines) : pipelines'[i] = pipelines[i]
             /\ pipelines'[Len(pipelines')] = [chat |-> c, pc |-> "start", log |-> <<>>]
             /\ \A k \in 1..Len(sent') : sent'[k] /= Denial(c)
             /\ sent' = <<>>]_vars

\* two pipelines are in their stages at once: the first is building while the
\* second, started after the first had begun, has synchronised and is building too
C31_Witness ==
    /\ Len(pipelines) = 2
    /\ InStage(1) /\ InStage(2)
    /\ pipelines[1].pc = "build"
    /\ pipelines[2].pc = "build"
    /\ \E k \in 1..Len(pipelines[2].log) : pipelines[2].log[k].act = "run"

----------------------------------------------------------------------------
(* Writes of the collections that fail                                      *)

\* write_slots and the write of bookings.json open the file with mode "w",
\* which empties it, and then json.dump writes the text piece by piece: a
\* write may raise before the file is opened (mkdir or open raises: the file
\* is as before) or after (the dump raises: the file holds a cut-off text)
WriteFailures == {"slots_open", "slots_dump", "bookings_open", "bookings_dump"}

\* handle_confirm_delete_callback when one of its two writes raises at point
\* `at`: what was written before stays written, nothing is sent, and nothing
\* catches the exception. A file in `damaged` holds a cut-off text; its
\* variable keeps the last complete content, which no reader gets any more.
handle_confirm_delete_callback_raises(c, payload, at) ==
    LET p == SplitOnce(payload, "|")
        date_str == p[1]
        time == p[2]
        has_slot == date_str \in DOMAIN slots /\ InList(time, slots[date_str])
    IN  /\ Len(p) = 2
        /\ at \in {"slots_open", "slots_dump"} => has_slot
        /\ slots' = IF has_slot /\ at \in {"bookings_open", "bookings_dump"}
                    THEN SlotsWithout(slots, date_str, time)
                    ELSE slots
        /\ damaged' = IF at = "slots_dump" THEN damaged \cup {"slots"}
                      ELSE IF at = "bookings_dump" THEN damaged \cup {"bookings"}
                      ELSE damaged
        /\ sent' = <<>>
        /\ last' = Event("confirm_del_raises", c, <<payload, at>>)
        /\ UNCHANGED <<bookings, chat_state, today, text_in, parsed, call, locals,
                       screen, authVars, draftVars, contentVars>>

\* a handler of the flow that reads a cut-off file: json.load raises in
\* read_slots or read_bookings before anything is written or sent
ReadsCutOffFile(c) ==
    /\ damaged /= {}
    /\ sent' = <<>>
    /\ last' = Event("read_raises", c, <<>>)
    /\ UNCHANGED <<slots, bookings, chat_state, today, authVars, parseVars, draftVars,
                   contentVars>>

InitWriteFail ==
    /\ slots \in SlotFiles
    /\ bookings \in BookingLists
    /\ chat_state = [c \in Chats |-> None]
    /\ today = [y |-> 2026, m |-> 2, d |-> 9]
    /\ sent = <<>>
    /\ last = NoEvent
    /\ AuthIdle
    /\ ParseIdle
    /\ DraftsIdle

\* the slot-deletion flow while the files are whole, its confirmation with a
\* write that raises, and the handlers after a file was cut off
NextWriteFail ==
    \/ \E c \in Operators : damaged = {} /\ DeleteSlotButton(c)
    \/ \E c \in Operators, d \in ButtonDates : damaged = {} /\ handle_delete_date_callback(c, d)
    \/ \E c \in Operators, p \in Payloads : damaged = {} /\ handle_delete_time_callback(c, p)
    \/ \E c \in Operators, p \in Payloads : damaged = {} /\ handle_confirm_delete_callback(c, p)
    \/ \E c \in Operators, p \in Payloads, at \in WriteFailures :
          damaged = {} /\ handle_confirm_delete_callback_raises(c, p, at)
    \/ \E c \in Operators : ReadsCutOffFile(c)

SpecWriteFail == InitWriteFail /\ [][NextWriteFail]_vars

\* C32: a destructive write of a collection that fails leaves the stored
\* collection equal to its value before the operation, never a cut-off or
\* partly written one; a confirmed slot deletion whose write fails leaves both
\* the slots file and the bookings file as they were
C32_FailedWriteChangesNothing ==
    [][last'.handler = "confirm_del_raises" =>
          /\ damaged' = damaged
          /\ slots' = slots
          /\ bookings' = bookings]_vars

----------------------------------------------------------------------------
(* Wizard steps whose target was removed meanwhile                          *)

\* the steps that act on a package, a video or a file chosen earlier
TargetSteps ==
    {"edit_pkg_name", "edit_pkg_desc", "edit_pkg_price", "edit_pkg_position",
     "edit_pkg_preview", "edit_vid_title", "add_video_title", "add_video_duration",
     "add_video_position", "add_video_file", "rename_file"}

\* the package, the video or the file chat c's step acts on is not there
TargetMissing(c) ==
    LET k == FindPkg(packages, DictGet(chat_pkg_target, c)) IN
    CASE chat_state[c] = "rename_file" ->
             /\ DictGet(chat_rename_targets, c) /= <<>>
             /\ <<chat_rename_targets[c][1], chat_rename_targets[c][2]>> \notin public_files
      [] chat_state[c] = "edit_vid_title" ->
             \/ k = 0
             \/ /\ c \in DOMAIN chat_edit_vid_idx
                /\ chat_edit_vid_idx[c] >= Len(packages[k].videos)
      [] OTHER -> k = 0

\* the messages that tell the operator that the target is not there
NotFoundKinds ==
    {"package_not_found", "package_or_video_not_found", "package_gone",
     "source_file_gone", "package_undefined", "no_target_package"}

InitStale ==
    /\ packages = <<[Package(YogaId, Yoga, <<"A", "l", "l">>, <<"d">>, 0, <<>>)
                       EXCEPT !.videos = <<Video(<<"V", "1">>, <<"5">>)>>]>>
    /\ posts = EmptyDict
    /\ public_files = {PhotoFile}
    /\ scenario = "none"
    /\ slots = EmptyDict
    /\ bookings = <<>>
    /\ chat_state = [c \in Chats |-> None]
    /\ today = [y |-> 2026, m |-> 2, d |-> 11]
    /\ sent = <<>>
    /\ last = NoEvent
    /\ AuthIdle
    /\ ParseIdle
    /\ chat_pkg_draft = EmptyDict
    /\ chat_pkg_target = EmptyDict
    /\ chat_video_draft = EmptyDict
    /\ chat_edit_vid_idx = EmptyDict
    /\ chat_post_files = EmptyDict
    /\ chat_edit_post_files = EmptyDict
    /\ chat_upload_dirs = EmptyDict
    /\ chat_rename_targets = EmptyDict

\* the operator enters a step that has a target and answers it, while the
\* package is deleted or the file renamed through buttons still on screen
NextStale ==
    \/ \E c \in Operators, field \in {"name", "desc", "price", "img", "pos"} :
          EditPkgCallback(c, field, YogaId)
    \/ \E c \in Operators : handle_edit_video_rename(c, YogaId, 0)
    \/ \E c \in Operators : handle_add_video_select_package(c, YogaId)
    \/ \E c \in Chats : handle_media_rename_file_start(c, PhotoFile)
    \/ \E c \in Chats : \E text \in StepTexts(chat_state[c]) :
          /\ chat_state[c] \in TargetSteps
          /\ WizardText(c, text, TRUE)
          /\ packages' = packages
    \/ \E c \in Operators, kind \in MediaKinds :
          /\ chat_state[c] \in {"edit_pkg_preview", "add_video_file"}
          /\ handle_media_message(c, kind, "none")
          /\ packages' = packages
    \/ \E c \in Chats : handle_confirm_delete_package(c, YogaId)

SpecStale == InitStale /\ [][NextStale]_vars

\* C33: whenever a text or a file is handled in a step whose target is not
\* there any more (the package of the edit_pkg_* steps and of the add-video
\* steps, the package or the video of edit_vid_title, the file of
\* rename_file), the operator is sent a not-found message, the chat becomes
\* idle and nothing is written: the session never stays in the step
C33_StaleTargetEndsSession ==
    [][\A c \in Chats :
          /\ last'.handler \in {"handle_text", "handle_media_message"}
          /\ last'.chat = c
          /\ chat_state[c] \in TargetSteps
          /\ TargetMissing(c)
          => /\ chat_state'[c] = None
             /\ \E i \in 1..Len(sent') : sent'[i].to = c /\ sent'[i].kind \in NotFoundKinds
             /\ packages' = packages
             /\ public_files' = public_files]_vars

----------------------------------------------------------------------------
(* Deleting packages, posts and videos: selection, prompt, confirmation     *)

\* a confirmation prompt in a chat: the tag and the data of its button and
\* the item its text names
Prompt(tag, data, item) == [tag |-> tag, data |-> data, item |-> item]

\* bot.send_message(chat_id, <the question>, reply_markup=kb) of a prompt: the
\* message stays in the chat with its button
Show(c, prompt) == [screen EXCEPT ![c] = @ \cup {prompt}]

\* Telegram sends a callback only for a button of a message of the chat
OnScreen(c, tag, data) == \E p \in screen[c] : p.tag = tag /\ p.data = data

\* handle_delete_package_select: delpkg:<pkg_id>:<page>
handle_delete_package_select(c, pkg_id) ==
    LET k == FindPkg(packages, pkg_id) IN
    /\ last' = Event("delpkg", c, pkg_id)
    /\ IF k = 0
       THEN /\ sent' = <<Answer(c, "package_not_found")>>
            /\ UNCHANGED screen
       ELSE /\ sent' = <<Answer(c, ""),
                         Msg(c, "confirm_package_deletion",
                             <<packages[k].name, Len(packages[k].videos)>>,
                             <<Button("confirm_delpkg", pkg_id),
                               Button("delpkg_cancel", <<>>)>>)>>
            /\ screen' = Show(c, Prompt("confirm_delpkg", pkg_id, packages[k].id))
    /\ UNCHANGED <<slotVars, chat_state, today, authVars, text_in, parsed, call, locals,
                   damaged, draftVars, contentVars>>

\* f"{slug}.md"
PostFile(slug) == slug \o <<".", "m", "d">>

\* the first line of lines from index i on that closes the frontmatter or
\* starts with title:, 0 when there is none
RECURSIVE TitleLine(_, _)
TitleLine(lines, i) ==
    IF i > Len(lines) THEN 0
    ELSE IF Strip(lines[i]) = <<"-", "-", "-">> THEN 0
    ELSE IF StartsWith(Strip(lines[i]), <<"t", "i", "t", "l", "e", ":">>) THEN i
    ELSE TitleLine(lines, i + 1)

\* the title handle_delete_post_select shows: the title: field of the
\* frontmatter without its quotes, or the slug
PostTitle(slug, text) ==
    LET lines == Lines(text)
        i == IF lines /= <<>> /\ Strip(lines[1]) = <<"-", "-", "-">>
             THEN TitleLine(lines, 2) ELSE 0
        value == IF i = 0 THEN <<>> ELSE Strip(SplitOnce(lines[i], ":")[2])
        raw == IF value /= <<>> /\ value[1] = "\"" /\ value[Len(value)] = "\""
               THEN Slice(value, 2, Len(value) - 1) ELSE value
    IN  IF raw = <<>> THEN slug ELSE raw

\* handle_delete_post_select: delpost:<slug>:<page>
handle_delete_post_select(c, slug) ==
    /\ last' = Event("delpost", c, slug)
    /\ IF PostFile(slug) \notin DOMAIN posts
       THEN /\ sent' = <<Answer(c, "post_file_not_found"),
                         Msg(c, "post_gone", <<>>, Kb("blog_keyboard"))>>
            /\ UNCHANGED screen
       ELSE /\ sent' = <<Answer(c, ""),
                         Msg(c, "confirm_post_deletion",
                             <<PostTitle(slug, posts[PostFile(slug)]), PostFile(slug)>>,
                             <<Button("confirm_delpost", slug),
                               Button("cancel_delpost", <<>>)>>)>>
            /\ screen' = Show(c, Prompt("confirm_delpost", slug, PostFile(slug)))
    /\ UNCHANGED <<slotVars, chat_state, today, authVars, text_in, parsed, call, locals,
                   damaged, draftVars, contentVars>>

\* handle_confirm_delete_post: confirm_delpost:<slug>; ok: path.unlink() does
\* not raise
handle_confirm_delete_post(c, slug, ok) ==
    /\ ok \/ PostFile(slug) \in DOMAIN posts
    /\ last' = Event("confirm_delpost", c, slug)
    /\ IF PostFile(slug) \notin DOMAIN posts
       THEN /\ sent' = <<Msg(c, "post_file_gone", <<>>, Kb("blog_keyboard")),
                         Answer(c, "post_deleted")>>
            /\ UNCHANGED posts
       ELSE IF ~ok
       THEN /\ sent' = <<Msg(c, "post_not_deleted", <<>>, Kb("blog_keyboard")),
                         Answer(c, "post_deleted")>>
            /\ UNCHANGED posts
       ELSE /\ sent' = <<Msg(c, "post_deleted", <<PostFile(slug)>>, Kb("blog_keyboard")),
                         Answer(c, "post_deleted")>>
            /\ posts' = DictDel(posts, PostFile(slug))
    /\ UNCHANGED <<slotVars, chat_state, today, authVars, parseVars, draftVars, packages,
                   public_files, scenario>>

\* handle_delete_video_select_package: delvid:<pkg_id>:<page>
handle_delete_video_select_package(c, pkg_id) ==
    LET k == FindPkg(packages, pkg_id) IN
    /\ last' = Event("delvid", c, pkg_id)
    /\ sent' = IF k = 0 THEN <<Answer(c, "package_not_found")>>
               ELSE IF packages[k].videos = <<>>
               THEN <<Answer(c, "no_videos"),
                      Msg(c, "no_videos", <<packages[k].name>>, Kb("yoga_keyboard"))>>
               ELSE <<Answer(c, ""),
                      Msg(c, "choose_video_to_delete", <<packages[k].name>>,
                          [i \in 1..Len(packages[k].videos) |->
                              Button("rmvid", <<pkg_id, i - 1>>)]
                          \o <<Button("delvid_cancel", <<>>)>>)>>
    /\ UNCHANGED <<slotVars, chat_state, today, authVars, parseVars, draftVars,
                   contentVars>>

\* handle_remove_video_confirm: rmvid:<pkg_id>|<idx>
handle_remove_video_confirm(c, pkg_id, idx) ==
    LET k == FindPkg(packages, pkg_id) IN
    /\ last' = Event("rmvid", c, <<pkg_id, idx>>)
    /\ IF k = 0
       THEN /\ sent' = <<Answer(c, "package_not_found")>>
            /\ UNCHANGED screen
       ELSE IF idx < 0 \/ idx >= Len(packages[k].videos)
       THEN /\ sent' = <<Answer(c, "video_not_found")>>
            /\ UNCHANGED screen
       ELSE LET title == DictGet(packages[k].videos[idx + 1], "title") IN
            /\ sent' = <<Answer(c, ""),
                         Msg(c, "confirm_video_deletion", <<title, packages[k].name>>,
                             <<Button("confirm_rmvid", <<pkg_id, idx>>),
                               Button("delvid_cancel", <<>>)>>)>>
            /\ screen' = Show(c, Prompt("confirm_rmvid", <<pkg_id, idx>>, title))
    /\ UNCHANGED <<slotVars, chat_state, today, authVars, text_in, parsed, call, locals,
                   damaged, draftVars, contentVars>>

\* videos.pop(idx)
PopVideo(videos, idx) ==
    [i \in 1..(Len(videos) - 1) |-> IF i <= idx THEN videos[i] ELSE videos[i + 1]]

\* the file of a video under public/videos/, when its videoUrl names one
FileOfVideo(video) ==
    IF "videoUrl" \in DOMAIN video /\ StartsWith(video.videoUrl, VideosDir)
    THEN {<< <<"v", "i", "d", "e", "o", "s">>,
             Slice(video.videoUrl, Len(VideosDir) + 1, Len(video.videoUrl)) >>}
    ELSE {}

\* handle_confirm_remove_video: confirm_rmvid:<pkg_id>|<idx>
handle_confirm_remove_video(c, pkg_id, idx) ==
    LET k == FindPkg(packages, pkg_id) IN
    /\ last' = Event("confirm_rmvid", c, <<pkg_id, idx>>)
    /\ IF k = 0
       THEN /\ sent' = <<Answer(c, "package_not_found"),
                         Msg(c, "package_gone", <<>>, Kb("yoga_keyboard"))>>
            /\ UNCHANGED <<packages, public_files>>
       ELSE IF idx < 0 \/ idx >= Len(packages[k].videos)
       THEN /\ sent' = <<Answer(c, "video_already_deleted"),
                         Msg(c, "video_already_deleted", <<>>, Kb("yoga_keyboard"))>>
            /\ UNCHANGED <<packages, public_files>>
       ELSE LET removed == packages[k].videos[idx + 1] IN
            /\ packages' = [packages EXCEPT ![k].videos = PopVideo(@, idx)]
            /\ public_files' = public_files \ FileOfVideo(removed)
            /\ sent' = <<Answer(c, "video_deleted"),
                         Msg(c, "video_deleted",
                             <<DictGet(removed, "title"), packages[k].name,
                               FileOfVideo(removed) \cap public_files /= {}>>,
                             Kb("yoga_keyboard"))>>
    /\ UNCHANGED <<slotVars, chat_state, today, authVars, parseVars, draftVars, posts,
                   scenario>>

\* a post with a frontmatter that has a title
TitledPost ==
    <<"-", "-", "-", "\n", "t", "i", "t", "l", "e", ":", " ", "\"", "T", "\"", "\n",
      "-", "-", "-", "\n", "b">>

InitConfirm ==
    /\ packages = <<[Package(YogaId, Yoga, <<"A", "l", "l">>, <<"d">>, 0, <<>>)
                       EXCEPT !.videos = <<Video(One, One), Video(Three, One)>>]>>
    /\ posts \in {DictSet(EmptyDict, PostName, <<"t", "e", "x", "t">>),
                  DictSet(EmptyDict, PostName, TitledPost)}
    /\ public_files = {}
    /\ scenario = "none"
    /\ slots = EmptyDict
    /\ bookings = <<>>
    /\ chat_state = [c \in Chats |-> None]
    /\ today = [y |-> 2026, m |-> 2, d |-> 11]
    /\ sent = <<>>
    /\ last = NoEvent
    /\ AuthIdle
    /\ ParseIdle
    /\ chat_pkg_draft = EmptyDict
    /\ chat_pkg_target = EmptyDict
    /\ chat_video_draft = EmptyDict
    /\ chat_edit_vid_idx = EmptyDict
    /\ chat_post_files = EmptyDict
    /\ chat_edit_post_files = EmptyDict
    /\ chat_upload_dirs = EmptyDict
    /\ chat_rename_targets = EmptyDict

\* the indexes the video buttons of the two-video package carry
VideoIndexes == 0..1

\* the operator selects packages, posts and videos for deletion and presses
\* the confirm buttons of the prompts in the chat; the other chat moves videos
NextConfirm ==
    \/ \E c \in Operators, pkg_id \in ButtonPkgIds : handle_delete_package_select(c, pkg_id)
    \/ \E c \in Operators, pkg_id \in ButtonPkgIds :
          OnScreen(c, "confirm_delpkg", pkg_id) /\ handle_confirm_delete_package(c, pkg_id)
    \/ \E c \in Operators : handle_delete_post_select(c, PostSlug)
    \/ \E c \in Operators, ok \in BOOLEAN :
          OnScreen(c, "confirm_delpost", PostSlug) /\ handle_confirm_delete_post(c, PostSlug, ok)
    \/ \E c \in Operators : handle_delete_video_select_package(c, YogaId)
    \/ \E c \in Operators, idx \in VideoIndexes : handle_remove_video_confirm(c, YogaId, idx)
    \/ \E c \in Operators, idx \in VideoIndexes :
          /\ OnScreen(c, "confirm_rmvid", <<YogaId, idx>>)
          /\ handle_confirm_remove_video(c, YogaId, idx)
    \/ \E c \in Chats \ Operators, idx \in VideoIndexes : handle_edit_video_up(c, YogaId, idx)
    \/ \E c \in Chats \ Operators, idx \in VideoIndexes : handle_edit_video_down(c, YogaId, idx)

SpecConfirm == InitConfirm /\ [][NextConfirm]_vars

\* the ids of the packages of a list
IdsOf(pkgs) == {pkgs[i].id : i \in 1..Len(pkgs)}

\* the videos of package pkg_id in a list of packages
VideoSet(pkgs, pkg_id) ==
    LET k == FindPkg(pkgs, pkg_id) IN
    IF k = 0 THEN {} ELSE {pkgs[k].videos[i] : i \in 1..Len(pkgs[k].videos)}

\* a prompt with this button that names this item was sent to chat c
Prompted(c, tag, item) == \E p \in screen[c] : p.tag = tag /\ p.item = item

\* C34: a package, a post or a video of a package is removed only by handling
\* its confirm callback (confirm_delpkg, confirm_delpost, confirm_rmvid), never
\* by selecting it, and every removal in a chat comes after a confirmation
\* prompt for that same item sent to that chat
C34_RemovalOnlyAfterItsPrompt ==
    [][/\ \A id \in IdsOf(packages) \ IdsOf(packages') :
             /\ last'.handler = "confirm_delpkg"
             /\ Prompted(last'.chat, "confirm_delpkg", id)
       /\ \A file \in (DOMAIN posts) \ (DOMAIN posts') :
             /\ last'.handler = "confirm_delpost"
             /\ Prompted(last'.chat, "confirm_delpost", file)
       /\ \A id \in IdsOf(packages) \cap IdsOf(packages') :
             \A v \in VideoSet(packages, id) \ VideoSet(packages', id) :
                /\ last'.handler = "confirm_rmvid"
                /\ Prompted(last'.chat, "confirm_rmvid", DictGet(v, "title"))]_vars

\* C38: the video removed when a confirm_rmvid callback is handled is the
\* video whose title was shown in the confirmation prompt that produced the
\* callback, also when the package's video list was reordered or changed in
\* length between the prompt and the confirmation
C38_RemovedVideoIsThePromptedOne ==
    [][last'.handler = "confirm_rmvid" /\ packages' /= packages =>
          LET c == last'.chat
              k == FindPkg(packages, last'.data[1])
              removed == packages[k].videos[last'.data[2] + 1]
          IN  \E p \in screen[c] :
                 /\ p.tag = "confirm_rmvid"
                 /\ p.data = last'.data
                 /\ p.item = DictGet(removed, "title")]_vars

----------------------------------------------------------------------------
(* Editing the position of a package                                        *)

\* three packages, and a fourth that has the id of the first
PkgA == Package(<<"a">>, <<"A">>, <<"A", "l", "l">>, <<"d">>, 0, <<>>)
PkgB == Package(<<"b">>, <<"B">>, <<"A", "l", "l">>, <<"d">>, 0, <<>>)
PkgC == Package(<<"c">>, <<"C">>, <<"A", "l", "l">>, <<"d">>, 0, <<>>)
PkgA2 == Package(<<"a">>, <<"A", "2">>, <<"A", "l", "l">>, <<"d">>, 0, <<>>)

\* packages.json when the bot starts: one to three of the packages in any
\* order, an id held at most twice
PositionPackages ==
    UNION { { l \in [1..n -> {PkgA, PkgB, PkgC, PkgA2}] :
                \A i, j \in 1..n : i /= j => l[i] /= l[j] }
            : n \in 1..(MaxPackages + 1) }

\* what is typed as the new position
PositionTexts == {One, <<"2">>, Three, <<"4">>, <<"0">>, Yoga}

InitPosition ==
    /\ packages \in PositionPackages
    /\ posts = EmptyDict
    /\ public_files = {}
    /\ scenario = "none"
    /\ slots = EmptyDict
    /\ bookings = <<>>
    /\ chat_state = [c \in Chats |-> None]
    /\ today = [y |-> 2026, m |-> 2, d |-> 11]
    /\ sent = <<>>
    /\ last = NoEvent
    /\ AuthIdle
    /\ ParseIdle
    /\ chat_pkg_draft = EmptyDict
    /\ chat_pkg_target = EmptyDict
    /\ chat_video_draft = EmptyDict
    /\ chat_edit_vid_idx = EmptyDict
    /\ chat_post_files = EmptyDict
    /\ chat_edit_post_files = EmptyDict
    /\ chat_upload_dirs = EmptyDict
    /\ chat_rename_targets = EmptyDict

\* the operator presses the position button of a package and types a position
NextPosition ==
    \/ \E c \in Operators, pkg_id \in {<<"a">>, <<"b">>, <<"c">>} :
          EditPkgCallback(c, "pos", pkg_id)
    \/ \E c \in Operators, text \in PositionTexts :
          chat_state[c] = "edit_pkg_position" /\ WizardText(c, text, TRUE)

SpecPosition == InitPosition /\ [][NextPosition]_vars

\* C35: editing the position of a package to a valid 1-based index p
\* (1 <= p <= number of packages) moves it, pop then insert: afterwards the
\* target package is at index p-1 (0-based), the collection holds the same
\* packages, and the other packages keep their relative order; when the
\* package is at p already the collection is left as it is
C35_PositionEditIsAMove ==
    [][\A c \in Chats :
          LET k == FindPkg(packages, DictGet(chat_pkg_target, c))
              p == IntValue(last'.data)
          IN  /\ last'.handler = "handle_text"
              /\ last'.chat = c
              /\ chat_state[c] = "edit_pkg_position"
              /\ ValidPosition(last'.data, Len(packages))
              /\ k /= 0
              => /\ Len(packages') = Len(packages)
                 /\ packages'[p] = packages[k]
                 /\ Without(packages', p) = Without(packages, k)
                 /\ k = p => packages' = packages /\ sent'[1].kind = "already_at_position"
                 /\ chat_state'[c] = None]_vars

\* the first of three packages has just been moved to the third place
C35_Witness ==
    /\ last.handler = "handle_text"
    /\ last.data = Three
    /\ Len(packages) = 3
    /\ packages[3].id = DictGet(chat_pkg_target, 1)
    /\ \E i \in 1..Len(sent) : sent[i].kind = "package_moved"
    /\ packages[1].id /= packages[3].id
    /\ packages[2].id /= packages[3].id

----------------------------------------------------------------------------
(* add_preview_to_post applied to post files                                *)

\* the lines post files are made of: the separator, plain and padded, a title
\* field, a previewImage field, a body line
PostLines ==
    { Fence, <<" ">> \o Fence, <<"t", ":", "T">>, PreviewKey \o <<"x">>, <<"b">> }

MaxLines == 3

\* post files: up to MaxLines lines, with or without a newline at the end
PostTexts ==
    UNION { { JoinLines(l) : l \in [1..n -> PostLines] } : n \in 0..MaxLines }
    \cup UNION { { JoinLines(l) \o <<"\n">> : l \in [1..n -> PostLines] } : n \in 1..MaxLines }

ImagePath == <<"/", "p">>

PreviewCalls == { Call("add_preview_to_post", <<text, ImagePath>>) : text \in PostTexts }

\* add_preview_to_post applied to the text of a post file
PreviewCall ==
    /\ call.fn = "add_preview_to_post"
    /\ ~call.done
    /\ call' = [call EXCEPT !.done = TRUE,
                            !.result = WithPreview(call.args[1], call.args[2])]
    /\ UNCHANGED <<slots, bookings, chat_state, today, sent, last, text_in, parsed,
                   locals, damaged, screen, authVars, draftVars, contentVars>>

\* add_preview_to_post called once more on the file it has written
PreviewAgain ==
    /\ call.fn = "add_preview_to_post"
    /\ call.done
    /\ call.result /= call.args[1]
    /\ call' = Call("add_preview_to_post", <<call.result, call.args[2]>>)
    /\ UNCHANGED <<slots, bookings, chat_state, today, sent, last, text_in, parsed,
                   locals, damaged, screen, authVars, draftVars, contentVars>>

InitPreview ==
    /\ call \in PreviewCalls
    /\ text_in = NoCase
    /\ parsed = NotParsed
    /\ locals = NoLocals
    /\ damaged = {}
    /\ screen = [c \in Chats |-> {}]
    /\ today = [y |-> 2026, m |-> 2, d |-> 11]
    /\ slots = EmptyDict
    /\ bookings = <<>>
    /\ chat_state = [c \in Chats |-> None]
    /\ sent = <<>>
    /\ last = NoEvent
    /\ AuthIdle
    /\ DraftsIdle

NextPreview ==
    \/ PreviewCall
    \/ PreviewAgain

SpecPreview == InitPreview /\ [][NextPreview]_vars

\* the previewImage line add_preview_to_post writes
PreviewEntry(image_path) == PreviewKey \o <<" ", "\"">> \o image_path \o <<"\"">>

\* the index of the line that closes the frontmatter of lines, 0 when the
\* first line does not open one or no line closes it
ClosingLine(lines) ==
    IF lines = <<>> \/ Strip(lines[1]) /= Fence THEN 0
    ELSE IF \E i \in 2..Len(lines) : Strip(lines[i]) = Fence
    THEN CHOOSE i \in 2..Len(lines) :
            Strip(lines[i]) = Fence /\ \A j \in 2..(i - 1) : Strip(lines[j]) /= Fence
    ELSE 0

\* the field block of lines that has a previewImage field
HasPreview(lines) ==
    \E i \in 2..(ClosingLine(lines) - 1) : StartsWith(Strip(lines[i]), PreviewKey)

\* C36: add_preview_to_post on a post whose frontmatter lacks previewImage puts
\* the previewImage line first in the field block and leaves the other field
\* lines and the body as they were; on a post that has previewImage it changes
\* nothing, so applying it twice equals applying it once; on a post with a
\* missing or malformed frontmatter (no opening separator, or an opening one
\* with no closing one) it puts a fresh frontmatter block with previewImage in
\* front of the existing text
C36_PreviewInsertedOnce ==
    call.fn = "add_preview_to_post" /\ call.done =>
        LET text == call.args[1]
            out == call.result
            lines == Lines(text)
            end_idx == ClosingLine(lines)
            entry == PreviewEntry(call.args[2])
        IN  /\ WithPreview(out, call.args[2]) = out
            /\ IF end_idx = 0
               THEN out = JoinLines(<<Fence, entry, Fence, <<>> >> \o lines)
               ELSE IF HasPreview(lines)
               THEN out = text
               ELSE Lines(out) = <<Fence, entry>> \o Slice(lines, 2, end_idx - 1)
                                   \o <<Fence>> \o Slice(lines, end_idx + 1, Len(lines))

----------------------------------------------------------------------------
(* Uploads into a directory that holds files already                        *)

\* what arrives: message.photo, message.video, message.document
UploadKinds == {"photo", "video", "document"}

InitUpload ==
    /\ packages = <<Package(YogaId, Yoga, <<"A", "l", "l">>, <<"d">>, 0, <<>>)>>
    /\ posts = EmptyDict
    /\ public_files \in PublicDirs
    /\ scenario = "none"
    /\ slots = EmptyDict
    /\ bookings = <<>>
    /\ chat_state = [c \in Chats |-> None]
    /\ today = [y |-> 2026, m |-> 2, d |-> 11]
    /\ sent = <<>>
    /\ last = NoEvent
    /\ AuthIdle
    /\ ParseIdle
    /\ chat_pkg_draft = EmptyDict
    /\ chat_pkg_target = EmptyDict
    /\ chat_video_draft = EmptyDict
    /\ chat_edit_vid_idx = EmptyDict
    /\ chat_post_files = EmptyDict
    /\ chat_edit_post_files = EmptyDict
    /\ chat_upload_dirs = EmptyDict
    /\ chat_rename_targets = EmptyDict

\* the file manager's upload from both chats and the Add Video wizard of the
\* operator up to its file step, with files arriving within one second and a
\* second apart
NextUpload ==
    \/ \E c \in Chats : handle_media_upload_start(c, PhotoFile[1])
    \/ \E c \in Operators : handle_add_video_select_package(c, YogaId)
    \/ \E c \in Operators : \E text \in {Yoga, One} :
          /\ chat_state[c] \in {"add_video_title", "add_video_duration"}
          /\ WizardText(c, text, TRUE)
    \/ \E c \in Chats : \E kind \in UploadKinds : \E fail \in {"none", "file"} :
          /\ chat_state[c] \in {"upload_file", "add_video_file"}
          /\ handle_media_message(c, kind, fail)
          /\ \A k \in 1..Len(packages') : Len(packages'[k].videos) <= MaxVideos
          /\ Cardinality(public_files') <= MaxVideos + 1
    \/ Tick /\ now' <= MaxClock

SpecUpload == InitUpload /\ [][NextUpload]_vars

\* the handler that ran last told chat c that the received file is stored
StoredFor(c) ==
    /\ last'.handler = "handle_media_message"
    /\ last'.chat = c
    /\ chat_state[c] \in {"upload_file", "add_video_file"}
    /\ \E i \in 1..Len(sent') : sent'[i].kind \in {"file_uploaded", "video_added"}

\* C37: an upload never replaces an existing file: when a received file is
\* stored in state upload_file or add_video_file, every file the directory
\* held is still there and the new one is stored next to them under a name
\* that no file had.
C37_UploadKeepsExistingFiles ==
    [][\A c \in Chats :
          StoredFor(c) => /\ public_files \subseteq public_files'
                          /\ public_files' /= public_files]_vars

----------------------------------------------------------------------------
(* The menu text "Отменить запись"                                          *)

\* a booking dated today or later is stored
HasComingBooking == \E i \in 1..Len(bookings) : StrLeq(today_str, bookings[i].date)

\* C39: the menu text "Отменить запись" always gets a response: with a booking
\* dated today or later a message with the cancel_date buttons of the booking
\* dates, and otherwise a message that there is nothing to cancel.
C39_CancelBookingAnswered ==
    [][\A c \in Chats :
          last'.handler = "handle_buttons_cancel_booking" /\ last'.chat = c =>
             /\ \E k \in 1..Len(sent') : sent'[k].to = c
             /\ HasComingBooking =>
                   \E k \in 1..Len(sent') : \E b \in 1..Len(sent'[k].kb) :
                      sent'[k].kb[b].tag = "cancel_date"]_vars

----------------------------------------------------------------------------
(* Who may change the content                                               *)

\* handle_media_delete_file: mf_delfile:<dir_name>|<filename>; ok: unlink succeeds
handle_media_delete_file(c, file, ok) ==
    /\ ok \/ file \in public_files
    /\ last' = Event("mf_delfile", c, file)
    /\ IF file \notin public_files
       THEN /\ sent' = <<Answer(c, "file_gone"),
                         Msg(c, "file_already_deleted", <<>>, Kb("blog_keyboard"))>>
            /\ UNCHANGED public_files
       ELSE IF ~ok
       THEN /\ sent' = <<Answer(c, "file_not_deleted"),
                         Msg(c, "file_not_deleted", <<>>, Kb("blog_keyboard"))>>
            /\ UNCHANGED public_files
       ELSE /\ public_files' = public_files \ {file}
            /\ sent' = <<Answer(c, "file_deleted"),
                         Msg(c, "file_deleted", <<file[2], file[1]>>, Kb("blog_keyboard"))>>
    /\ UNCHANGED <<slotVars, chat_state, today, authVars, parseVars, draftVars, packages,
                   posts, scenario>>

\* the parts of the bot one run goes through
Parts == {"slots", "posts", "packages", "files", "system"}

\* the allowlist is empty or names chat 1; chat 2 is in no allowlist
InitOpen ==
    /\ admin_ids \in AdminSets
    /\ secret = "k"
    /\ token_row = <<>>
    /\ issued = <<>>
    /\ now = 0
    /\ verified = NotVerified
    /\ pipelines = <<>>
    /\ scenario \in Parts
    /\ slots \in (IF scenario = "slots" THEN SlotFiles ELSE {EmptyDict})
    /\ bookings \in (IF scenario = "slots" THEN BookingLists ELSE {<<>>})
    /\ \E content \in Contents :
          /\ scenario \in {"slots", "system"} => content[1] = <<>>
          /\ packages = content[1]
          /\ posts = content[2]
          /\ public_files = content[3]
    /\ chat_state = [c \in Chats |-> None]
    /\ today = [y |-> 2026, m |-> 2, d |-> 9]
    /\ sent = <<>>
    /\ last = NoEvent
    /\ ParseIdle
    /\ chat_pkg_draft = EmptyDict
    /\ chat_pkg_target = EmptyDict
    /\ chat_video_draft = EmptyDict
    /\ chat_edit_vid_idx = EmptyDict
    /\ chat_post_files = EmptyDict
    /\ chat_edit_post_files = EmptyDict
    /\ chat_upload_dirs = EmptyDict
    /\ chat_rename_targets = EmptyDict

\* one run follows one chat, in the allowlist or not
Actors == {c \in Chats : last.chat \in {0, c}}

\* every chat does what the operator does: slots and bookings, posts,
\* packages, files, and the system functions
NextOpen ==
    \/ \E c \in Actors : scenario = "slots" /\ AddSlotButton(c)
    \/ \E c \in Actors, text \in SlotTexts :
          scenario = "slots" /\ chat_state[c] = "add_slot" /\ handle_text(c, text)
    \/ \E c \in Actors, p \in Payloads :
          scenario = "slots" /\ handle_confirm_delete_callback(c, p)
    \/ \E c \in Actors, p \in Payloads :
          scenario = "slots" /\ handle_confirm_cancel_booking_callback(c, p)
    \/ \E c \in Actors, label \in {"add_post", "add_package"} :
          /\ scenario = (IF label = "add_post" THEN "posts" ELSE "packages")
          /\ LabelButton(c, label)
    \/ \E c \in Actors : scenario = "posts" /\ handle_edit_post_select(c, PostSlug, TRUE)
    \/ \E c \in Actors : scenario = "posts" /\ handle_confirm_delete_post(c, PostSlug, TRUE)
    \/ \E c \in Actors, level \in Levels :
          scenario = "packages" /\ handle_package_level_select(c, level)
    \/ \E c \in Actors : scenario = "packages" /\ EditPkgCallback(c, "name", YogaId)
    \/ \E c \in Actors, pkg_id \in ButtonPkgIds :
          scenario = "packages" /\ handle_confirm_delete_package(c, pkg_id)
    \/ \E c \in Actors : scenario = "files" /\ handle_media_upload_start(c, PhotoFile[1])
    \/ \E c \in Actors : scenario = "files" /\ handle_media_rename_file_start(c, PhotoFile)
    \/ \E c \in Actors, file \in {PhotoFile, PhotoFileB} :
          scenario = "files" /\ handle_media_delete_file(c, file, TRUE)
    \/ \E c \in Actors, kind \in MediaKinds :
          /\ scenario = "files"
          /\ handle_media_message(c, kind, "none")
    \/ \E c \in Actors :
       \E text \in StepTexts(chat_state[c])
                     \cup (IF chat_state[c] = "edit_pkg_name" THEN {Net} ELSE {}) :
          /\ scenario \in {"posts", "packages", "files"}
          /\ WizardText(c, text, TRUE)
          /\ WithinBounds
    \/ \E c \in Actors : scenario = "system" /\ SystemMenu(c)
    \/ \E c \in Actors : scenario = "system" /\ cmd_deploy(c)
    \/ \E c \in Actors : scenario = "system" /\ DeployButton(c)
    \/ \E c \in Actors : scenario = "system" /\ TokenButton(c)

SpecOpen == InitOpen /\ [][NextOpen]_vars

\* chat c is not in the allowlist
Outsider(c) == StrOf(c) \notin admin_ids

\* what the handler that ran last has carried out, whoever sent the update
CarriedOut ==
    LET h == last'.handler
        data == last'.data
    IN  /\ h = "confirm_del" /\ IsPayload(data)
             => ~HasSlot(slots', PayloadDate(data), PayloadTime(data))
        /\ h \in {"confirm_del", "confirm_cancel_booking"} /\ IsPayload(data)
             => ~HasBookings(bookings', PayloadDate(data), PayloadTime(data))
        /\ h = "handle_text" /\ chat_state[last'.chat] = "add_slot"
             /\ parse_date_range(data, today.y) /= None3
             => HasSlot(slots', parse_date_range(data, today.y)[1],
                        parse_date_range(data, today.y)[2])
        /\ h = "handle_text" /\ chat_state[last'.chat] = "add_post" /\ Strip(data) /= <<>>
             => NewPostName \in DOMAIN posts' /\ posts'[NewPostName] = Strip(data)
        /\ h = "handle_text" /\ chat_state[last'.chat] = "edit_post" /\ Strip(data) /= <<>>
             /\ PostName \in DOMAIN posts
             => posts'[PostName] = Strip(data)
        /\ h = "confirm_delpost" => PostFile(data) \notin DOMAIN posts'
        /\ h = "confirm_delpkg" => FindPkg(packages', data) = 0
        /\ h = "handle_text" /\ chat_state[last'.chat] = "add_pkg_preview"
             /\ chat_state'[last'.chat] = None
             => Len(packages') = Len(packages) + 1
        /\ h = "handle_text" /\ chat_state[last'.chat] = "edit_pkg_name"
             /\ Strip(data) /= <<>> /\ FindPkg(packages, YogaId) /= 0
             => packages'[FindPkg(packages, YogaId)].name = Strip(data)
        /\ h = "mf_delfile" => data \notin public_files'
        /\ h = "handle_media_message" /\ chat_state[last'.chat] = "upload_file"
             => \E f \in public_files' : f[1] = PhotoFile[1]
        /\ h = "handle_text" /\ chat_state[last'.chat] = "rename_file"
             /\ (\E k \in 1..Len(sent') : sent'[k].kind = "file_renamed")
             => PhotoFile \notin public_files' /\ public_files' /= {}

\* C40: the allowlist check guards the system menu, deploy and token issuance
\* and nothing else: a chat outside the allowlist gets the denial from these
\* and starts no pipeline and gets no token, while the handlers that add and
\* delete slots, cancel bookings, create, edit and delete posts and packages,
\* upload, rename and delete files never send the denial and carry out the
\* change for every chat id, in the allowlist or not.
C40_OnlySystemFunctionsGuarded ==
    [][\A c \in Chats : last'.chat = c =>
          /\ last'.handler \in Guarded /\ Outsider(c)
               => sent' = <<Denial(c)>> /\ UNCHANGED <<pipelines, token_row, issued>>
          /\ last'.handler \notin Guarded
               => /\ \A k \in 1..Len(sent') : sent'[k].kind /= "admin_only"
                  /\ CarriedOut]_vars

\* chat 2, which the allowlist {1} does not name, has deleted the package
C40_Witness ==
    /\ admin_ids = {StrOf(1)}
    /\ last.handler = "confirm_delpkg"
    /\ last.chat = 2
    /\ packages = <<>>
    /\ \E k \in 1..Len(sent) : sent[k].kind = "package_deleted"

====
